---- MODULE Spec2Model ----
(***************************************************************************)
(* Model of the RGAC reminder engine: the mainSync pipeline of             *)
(* src/api/sync.js (fetch, ensureColumns, processCustomers, sort,          *)
(* writeProcessedData, sendReminders, updateReminderFieldsInMaster,        *)
(* appendSheetRow) and the status-gated sendReminders of src/index.js.     *)
(*                                                                         *)
(* Cell values are JavaScript strings, modelled as sequences of one-       *)
(* character strings so that trim, toUpperCase, date formatting and date   *)
(* parsing are computed character by character.  A luxon DateTime at the   *)
(* start of a day is a record [isValid, year, month, day].                 *)
(***************************************************************************)
EXTENDS Integers, Sequences, FiniteSets, TLC

(***************************************************************************)
(* Bounds of the model.                                                    *)
(***************************************************************************)
MaxRows == 2
MaxRuns == 2
MaxTicks == 1

(***************************************************************************)
(* Strings.                                                                *)
(***************************************************************************)
EMPTY == <<>>

Whitespace == {" "}

LowerLetters == <<"a", "b", "c", "d", "e", "f", "g", "h", "i", "j", "k", "l", "m",
                  "n", "o", "p", "q", "r", "s", "t", "u", "v", "w", "x", "y", "z">>

UpperLetters == <<"A", "B", "C", "D", "E", "F", "G", "H", "I", "J", "K", "L", "M",
                  "N", "O", "P", "Q", "R", "S", "T", "U", "V", "W", "X", "Y", "Z">>

DigitChars == <<"0", "1", "2", "3", "4", "5", "6", "7", "8", "9">>

SetMin(S) == CHOOSE x \in S : \A y \in S : x <= y

SetMax(S) == CHOOSE x \in S : \A y \in S : y <= x

Range(f) == {f[k] : k \in DOMAIN f}

\* String.prototype.trim
trim(s) ==
    LET keep == {k \in 1..Len(s) : s[k] \notin Whitespace}
    IN  IF keep = {} THEN EMPTY ELSE SubSeq(s, SetMin(keep), SetMax(keep))

toUpperChar(c) ==
    IF \E k \in 1..26 : LowerLetters[k] = c
    THEN UpperLetters[CHOOSE k \in 1..26 : LowerLetters[k] = c]
    ELSE c

toLowerChar(c) ==
    IF \E k \in 1..26 : UpperLetters[k] = c
    THEN LowerLetters[CHOOSE k \in 1..26 : UpperLetters[k] = c]
    ELSE c

\* String.prototype.toUpperCase
toUpperCase(s) == IF s = EMPTY THEN EMPTY ELSE [k \in 1..Len(s) |-> toUpperChar(s[k])]

\* String.prototype.toLowerCase
toLowerCase(s) == IF s = EMPTY THEN EMPTY ELSE [k \in 1..Len(s) |-> toLowerChar(s[k])]

IsDigit(c) == \E k \in 1..10 : DigitChars[k] = c

DigitVal(c) == (CHOOSE k \in 1..10 : DigitChars[k] = c) - 1

AllDigits(s) == \A k \in 1..Len(s) : IsDigit(s[k])

RECURSIVE Num(_)
Num(s) == IF s = EMPTY THEN 0
          ELSE 10 * Num(SubSeq(s, 1, Len(s) - 1)) + DigitVal(s[Len(s)])

RECURSIVE Pow10(_)
Pow10(n) == IF n = 0 THEN 1 ELSE 10 * Pow10(n - 1)

\* the decimal digits of n, left-padded with zeros to width w (luxon padStart)
Pad(n, w) == [k \in 1..w |-> DigitChars[((n \div Pow10(w - k)) % 10) + 1]]

RECURSIVE split(_, _)
\* String.prototype.split on a one-character separator
split(s, sep) ==
    IF \A k \in 1..Len(s) : s[k] # sep THEN <<s>>
    ELSE LET k == SetMin({j \in 1..Len(s) : s[j] = sep})
         IN  <<SubSeq(s, 1, k - 1)>> \o split(SubSeq(s, k + 1, Len(s)), sep)

(***************************************************************************)
(* Calendar dates (luxon DateTime at local start of day).                  *)
(***************************************************************************)
Invalid == [isValid |-> FALSE, year |-> 0, month |-> 0, day |-> 0]

DateOf(y, m, d) == [isValid |-> TRUE, year |-> y, month |-> m, day |-> d]

isLeapYear(y) == (y % 4 = 0) /\ ((y % 100 # 0) \/ (y % 400 = 0))

daysInMonth(y, m) ==
    IF m = 2 THEN (IF isLeapYear(y) THEN 29 ELSE 28)
    ELSE IF m \in {4, 6, 9, 11} THEN 30 ELSE 31

validDate(y, m, d) == m \in 1..12 /\ d >= 1 /\ d <= daysInMonth(y, m)

MkDate(y, m, d) == IF validDate(y, m, d) THEN DateOf(y, m, d) ELSE Invalid

RECURSIVE daysBeforeMonth(_, _)
daysBeforeMonth(y, m) ==
    IF m = 1 THEN 0 ELSE daysBeforeMonth(y, m - 1) + daysInMonth(y, m - 1)

\* number of the day counted from 0001-01-01 (proleptic Gregorian)
ordinal(dt) ==
    LET y == dt.year - 1
    IN  365 * y + (y \div 4) - (y \div 100) + (y \div 400)
        + daysBeforeMonth(dt.year, dt.month) + dt.day

\* a.diff(b, "days").days for two start-of-day values
diffDays(a, b) == ordinal(a) - ordinal(b)

\* a faulty variant: a day past the end of the target month carries into the
\* month after it
plusMonthsCarrying(dt, n) ==
    LET m0 == dt.month + n
        yy == dt.year + ((m0 - 1) \div 12)
        mm == ((m0 - 1) % 12) + 1
    IN  IF dt.day <= daysInMonth(yy, mm) THEN DateOf(yy, mm, dt.day)
        ELSE DateOf(IF mm = 12 THEN yy + 1 ELSE yy, IF mm = 12 THEN 1 ELSE mm + 1,
                    dt.day - daysInMonth(yy, mm))

\* DateTime.plus({ months: n }): the day is clamped to the target month
plusMonths(dt, n) ==
    LET m0 == dt.month + n
        yy == dt.year + ((m0 - 1) \div 12)
        mm == ((m0 - 1) % 12) + 1
        dd == IF dt.day <= daysInMonth(yy, mm) THEN dt.day ELSE daysInMonth(yy, mm)
    IN  DateOf(yy, mm, dd)

\* DateTime.plus({ days: 1 })
nextDay(dt) ==
    IF dt.day < daysInMonth(dt.year, dt.month) THEN DateOf(dt.year, dt.month, dt.day + 1)
    ELSE IF dt.month < 12 THEN DateOf(dt.year, dt.month + 1, 1)
    ELSE DateOf(dt.year + 1, 1, 1)

\* DateTime.toISODate: yyyy-MM-dd
toISODate(dt) == Pad(dt.year, 4) \o <<"-">> \o Pad(dt.month, 2) \o <<"-">> \o Pad(dt.day, 2)

\* DateTime.toFormat("dd-MM-yyyy")
toFormatDMY(dt) == Pad(dt.day, 2) \o <<"-">> \o Pad(dt.month, 2) \o <<"-">> \o Pad(dt.year, 4)

\* DateTime.fromISO, for the calendar-date forms of ISO 8601:
\* yyyy, yyyy-MM, yyyyMM, yyyy-MM-dd, yyyyMMdd (each hyphen optional)
fromISO(s) ==
    IF Len(s) < 4 \/ ~AllDigits(SubSeq(s, 1, 4)) THEN Invalid
    ELSE LET y  == Num(SubSeq(s, 1, 4))
             r0 == SubSeq(s, 5, Len(s))
             r1 == IF r0 # EMPTY /\ r0[1] = "-" THEN Tail(r0) ELSE r0
         IN  IF r0 = EMPTY THEN MkDate(y, 1, 1)
             ELSE IF Len(r1) < 2 \/ ~AllDigits(SubSeq(r1, 1, 2)) THEN Invalid
             ELSE LET m  == Num(SubSeq(r1, 1, 2))
                      r2 == SubSeq(r1, 3, Len(r1))
                      r3 == IF r2 # EMPTY /\ r2[1] = "-" THEN Tail(r2) ELSE r2
                  IN  IF r2 = EMPTY THEN MkDate(y, m, 1)
                      ELSE IF Len(r3) = 2 /\ AllDigits(r3) THEN MkDate(y, m, Num(r3))
                      ELSE Invalid

\* the widths a luxon format token accepts
tokenWidths(tok) ==
    CASE tok = "yyyy" -> {4}
      [] tok = "MM"   -> {2}
      [] tok = "dd"   -> {2}
      [] tok = "M"    -> {1, 2}
      [] tok = "d"    -> {1, 2}

tokenUnit(tok) ==
    CASE tok = "yyyy" -> "year"
      [] tok \in {"MM", "M"} -> "month"
      [] tok \in {"dd", "d"} -> "day"

\* DateTime.fromFormat(s, fmt) for a format of three numeric tokens joined by
\* one separator character; fmt is [sep, toks]
fromFormat(s, fmt) ==
    LET parts == split(s, fmt.sep)
    IN  IF Len(parts) # 3 THEN Invalid
        ELSE IF \E k \in 1..3 : ~(AllDigits(parts[k]) /\ Len(parts[k]) \in tokenWidths(fmt.toks[k]))
        THEN Invalid
        ELSE LET val(u) == Num(parts[CHOOSE k \in 1..3 : tokenUnit(fmt.toks[k]) = u])
             IN  MkDate(val("year"), val("month"), val("day"))

FMT_ISO    == [sep |-> "-", toks |-> <<"yyyy", "MM", "dd">>]
FMT_DMY_SL == [sep |-> "/", toks |-> <<"dd", "MM", "yyyy">>]
FMT_MDY_SL == [sep |-> "/", toks |-> <<"MM", "dd", "yyyy">>]
FMT_DMY_HY == [sep |-> "-", toks |-> <<"dd", "MM", "yyyy">>]
FMT_MDY_HY == [sep |-> "-", toks |-> <<"MM", "dd", "yyyy">>]
FMT_dMY_SL == [sep |-> "/", toks |-> <<"d", "M", "yyyy">>]
FMT_dMY_HY == [sep |-> "-", toks |-> <<"d", "M", "yyyy">>]

\* the formats array of parseDate, in its order
formats == <<FMT_ISO, FMT_DMY_SL, FMT_MDY_SL, FMT_DMY_HY, FMT_MDY_HY, FMT_dMY_SL, FMT_dMY_HY>>

RECURSIVE tryFormats(_, _)
\* the for loop of parseDate over formats, from the k-th format on
tryFormats(str, k) ==
    IF k > Len(formats) THEN Invalid
    ELSE LET dt == fromFormat(str, formats[k])
         IN  IF dt.isValid THEN dt ELSE tryFormats(str, k + 1)

\* parseDate of mainSync: null is the invalid DateTime
parseDate(str) ==
    IF str = EMPTY THEN Invalid
    ELSE LET dt == fromISO(str)
         IN  IF dt.isValid THEN dt ELSE tryFormats(str, 1)

(***************************************************************************)
(* String comparison (String.prototype.localeCompare, root collation):     *)
(* blanks and punctuation sort before digits, digits before letters;       *)
(* letters compare without case first, and lower case sorts before upper   *)
(* case when that is the only difference.                                  *)
(***************************************************************************)
Punctuation == <<" ", "_", "-", ".", "/", "|", "@">>

collKey(c) ==
    IF \E k \in 1..26 : LowerLetters[k] = toLowerChar(c)
    THEN 100 + (CHOOSE k \in 1..26 : LowerLetters[k] = toLowerChar(c))
    ELSE IF IsDigit(c) THEN 50 + DigitVal(c)
    ELSE IF \E k \in 1..Len(Punctuation) : Punctuation[k] = c
    THEN CHOOSE k \in 1..Len(Punctuation) : Punctuation[k] = c
    ELSE 40

RECURSIVE lexCompare(_, _)
\* lexicographic comparison of two sequences of weights: -1, 0 or 1
lexCompare(a, b) ==
    IF a = <<>> /\ b = <<>> THEN 0
    ELSE IF a = <<>> THEN -1
    ELSE IF b = <<>> THEN 1
    ELSE IF a[1] < b[1] THEN -1
    ELSE IF a[1] > b[1] THEN 1
    ELSE lexCompare(Tail(a), Tail(b))

caseKey(c) == IF toLowerChar(c) = c THEN 0 ELSE 1

collKeys(s) == IF s = EMPTY THEN <<>> ELSE [k \in 1..Len(s) |-> collKey(s[k])]

caseKeys(s) == IF s = EMPTY THEN <<>> ELSE [k \in 1..Len(s) |-> caseKey(s[k])]

localeCompare(a, b) ==
    IF lexCompare(collKeys(a), collKeys(b)) # 0 THEN lexCompare(collKeys(a), collKeys(b))
    ELSE lexCompare(caseKeys(a), caseKeys(b))

(***************************************************************************)
(* The tabular store (Google Sheets values API).  A sheet is a sequence of *)
(* rows, a row a sequence of cells.  values.get omits trailing empty cells *)
(* and trailing empty rows, so a sheet is kept in that form.               *)
(***************************************************************************)
trimRow(row) ==
    LET keep == {k \in 1..Len(row) : row[k] # EMPTY}
    IN  IF keep = {} THEN <<>> ELSE SubSeq(row, 1, SetMax(keep))

sheetValues(grid) ==
    LET rows == [r \in 1..Len(grid) |-> trimRow(grid[r])]
        keep == {r \in 1..Len(rows) : rows[r] # <<>>}
    IN  IF keep = {} THEN <<>> ELSE SubSeq(rows, 1, SetMax(keep))

cellAt(row, i) == IF i \in 1..Len(row) THEN row[i] ELSE EMPTY

rowAt(sheet, r) == IF r \in 1..Len(sheet) THEN sheet[r] ELSE <<>>

\* values.update with a range whose first cell is column A of row startRow:
\* the cells given are overwritten, every other cell keeps its value
valuesUpdate(sheet, startRow, values) ==
    LET lastRow == IF Len(sheet) > startRow + Len(values) - 1
                   THEN Len(sheet) ELSE startRow + Len(values) - 1
        newRow(r) ==
            LET old == rowAt(sheet, r)
                k   == r - startRow + 1
            IN  IF k \in 1..Len(values)
                THEN [c \in 1..(IF Len(old) > Len(values[k]) THEN Len(old) ELSE Len(values[k])) |->
                         IF c <= Len(values[k]) THEN values[k][c] ELSE old[c]]
                ELSE old
    IN  sheetValues([r \in 1..lastRow |-> newRow(r)])

\* values.append: the row is added below the last row of the table
valuesAppend(sheet, row) == Append(sheet, row)

(***************************************************************************)
(* Column labels and literal strings of mainSync (src/api/sync.js).        *)
(***************************************************************************)
COL_NAME == <<"N", "a", "m", "e">>
COL_PLATE == <<"V", "e", "h", ".", " ", "R", "e", "g", ".", " ", "N", "o", ".">>
COL_EMAIL == <<"E", "m", "a", "i", "l", " ", "A", "d", "d", ".">>
COL_PHONE == <<"P", "h", "o", "n", "e", " ", "N", "u", "m", "b", "e", "r">>
COL_LAST_VISIT == <<"L", "a", "s", "t", " ", "V", "i", "s", "i", "t">>
COL_NEXT == <<"N", "e", "x", "t", " ", "R", "e", "m", "i", "n", "d", "e", "r", " ", "D", "a", "t", "e">>
COL_MANUAL == <<"M", "a", "n", "u", "a", "l", " ", "C", "o", "n", "t", "a", "c", "t">>
COL_STATUS == <<"S", "t", "a", "t", "u", "s">>
COL_LAST_SENT == <<"L", "a", "s", "t", " ", "E", "m", "a", "i", "l", " ", "S", "e", "n", "t">>
COL_TYPE == <<"E", "m", "a", "i", "l", " ", "T", "y", "p", "e">>
COL_SUB == <<"S", "u", "b", "s", "c", "r", "i", "p", "t", "i", "o", "n">>

REQUIRED_COLUMNS == <<COL_NAME, COL_PLATE, COL_EMAIL, COL_PHONE, COL_LAST_VISIT, COL_NEXT,
                      COL_MANUAL, COL_STATUS, COL_LAST_SENT, COL_TYPE, COL_SUB>>

MISSING_CONTACT == <<"M", "I", "S", "S", "I", "N", "G", " ", "C", "O", "N", "T", "A", "C", "T">>
NOT_SUBSCRIBED == <<"N", "O", "T", " ", "S", "U", "B", "S", "C", "R", "I", "B", "E", "D">>
UNSUBSCRIBED == <<"U", "N", "S", "U", "B", "S", "C", "R", "I", "B", "E", "D">>
OVERDUE == <<"O", "V", "E", "R", "D", "U", "E">>
DUE_TODAY == <<"D", "U", "E", "_", "T", "O", "D", "A", "Y">>
ADVANCE_7DAY == <<"A", "D", "V", "A", "N", "C", "E", "_", "7", "D", "A", "Y">>

\* JavaScript null, where a string is expected
null == <<"null">>

(***************************************************************************)
(* Pure steps of mainSync.                                                 *)
(***************************************************************************)
RECURSIVE pushMissing(_, _)
pushMissing(header, required) ==
    IF required = <<>> THEN header
    ELSE pushMissing(IF Head(required) \in Range(header) THEN header
                     ELSE Append(header, Head(required)),
                     Tail(required))

\* ensureColumns(header, required).header
ensureColumns(header, required) == pushMissing(header, required)

\* ensureColumns(header, required).changed
headerChanged(header, required) == \E k \in 1..Len(required) : required[k] \notin Range(header)

\* the record of one row: header.forEach((col, i) => obj[col] = (row[i] || "").trim()),
\* then the required fields that are still absent are set to ""
rowObject(row, header) ==
    [col \in Range(header) \cup Range(REQUIRED_COLUMNS) |->
        IF col \in Range(header)
        THEN trim(cellAt(row, SetMax({i \in 1..Len(header) : header[i] = col})))
        ELSE EMPTY]

\* Next Reminder Date of processCustomers: Last Visit plus 3 months as dd-MM-yyyy, or ""
nextReminderOf(lastVisitStr) ==
    LET lastVisit == parseDate(lastVisitStr)
    IN  IF lastVisit.isValid THEN toFormatDMY(plusMonths(lastVisit, 3)) ELSE EMPTY

\* faulty variant: the flag is set when either contact field is empty
manualContactEither(email, phone) ==
    IF email = EMPTY \/ phone = EMPTY THEN MISSING_CONTACT ELSE EMPTY

\* faulty variant: the flag is set when the email alone is empty
manualContactEmailOnly(email, phone) ==
    IF email = EMPTY THEN MISSING_CONTACT ELSE EMPTY

\* Manual Contact of processCustomers
manualContactOf(email, phone) ==
    IF email = EMPTY /\ phone = EMPTY THEN MISSING_CONTACT ELSE EMPTY

\* faulty variant: a Next Reminder Date already in the row is kept
processCustomerKeepingNext(row, header) ==
    LET obj == rowObject(row, header)
    IN  [obj EXCEPT ![COL_NEXT] = IF obj[COL_NEXT] # EMPTY THEN obj[COL_NEXT]
                                  ELSE nextReminderOf(obj[COL_LAST_VISIT]),
                    ![COL_MANUAL] = manualContactOf(obj[COL_EMAIL], obj[COL_PHONE])]

processCustomer(row, header) ==
    LET obj == rowObject(row, header)
    IN  [obj EXCEPT ![COL_NEXT] = nextReminderOf(obj[COL_LAST_VISIT]),
                    ![COL_MANUAL] = manualContactOf(obj[COL_EMAIL], obj[COL_PHONE])]

\* a faulty variant: the records come back sorted by name, as if the later
\* sort had been done in place rather than on a copy
processCustomersSortedInPlace(rows, header) ==
    LET n == Len(rows)
        objs == [k \in 1..n |-> processCustomer(rows[k], header)]
        before(j, i) == \/ localeCompare(objs[j][COL_NAME], objs[i][COL_NAME]) < 0
                        \/ /\ localeCompare(objs[j][COL_NAME], objs[i][COL_NAME]) = 0
                           /\ j < i
        rank(i) == Cardinality({j \in 1..n : before(j, i)}) + 1
    IN  [r \in 1..n |-> objs[CHOOSE i \in 1..n : rank(i) = r]]

\* processCustomers(rows, header): one record per row, in row order
processCustomers(rows, header) == [k \in 1..Len(rows) |-> processCustomer(rows[k], header)]

\* [...processedCustomers].sort((a, b) => a.Name.localeCompare(b.Name)): the positions
\* of the records in sorted order (Array.prototype.sort is stable)
sortByName(objs) ==
    LET n == Len(objs)
        before(j, i) == \/ localeCompare(objs[j][COL_NAME], objs[i][COL_NAME]) < 0
                        \/ /\ localeCompare(objs[j][COL_NAME], objs[i][COL_NAME]) = 0
                           /\ j < i
        rank(i) == Cardinality({j \in 1..n : before(j, i)}) + 1
    IN  [r \in 1..n |-> CHOOSE i \in 1..n : rank(i) = r]

\* the values written by writeProcessedData
processedValues(objs, order, header) ==
    <<header>> \o [k \in 1..Len(order) |-> [c \in 1..Len(header) |-> objs[order[k]][header[c]]]]

(***************************************************************************)
(* Guards of sendReminders (src/api/sync.js).                              *)
(***************************************************************************)
\* faulty variant: the cell is compared as typed, without trim and toUpperCase
isUnsubscribedExact(cell) == cell = NOT_SUBSCRIBED \/ cell = UNSUBSCRIBED

\* subscription === "NOT SUBSCRIBED" || subscription === "UNSUBSCRIBED",
\* with subscription = (customer["Subscription"] || "").trim().toUpperCase()
isUnsubscribed(cell) ==
    LET subscription == toUpperCase(trim(cell))
    IN  subscription = NOT_SUBSCRIBED \/ subscription = UNSUBSCRIBED

\* faulty variant: a record due today is classed as overdue
emailTypeForLate(daysUntilDue) ==
    IF daysUntilDue <= 0 THEN OVERDUE
    ELSE IF daysUntilDue <= 7 /\ daysUntilDue > 0 THEN ADVANCE_7DAY
    ELSE null

\* the if-chain that picks emailType from daysUntilDue; null when too early
emailTypeFor(daysUntilDue) ==
    IF daysUntilDue < 0 THEN OVERDUE
    ELSE IF daysUntilDue = 0 THEN DUE_TODAY
    ELSE IF daysUntilDue <= 7 /\ daysUntilDue > 0 THEN ADVANCE_7DAY
    ELSE null

\* faulty variant: the guard compares the date alone
alreadySentAnyType(lastEmailSent, lastEmailType, todayStr, type) ==
    lastEmailSent = todayStr

\* lastEmailSent === todayStr && lastEmailType === emailType
alreadySent(lastEmailSent, lastEmailType, todayStr, type) ==
    lastEmailSent = todayStr /\ lastEmailType = type

skip(counter) == [skip |-> counter, type |-> null]

\* what one pass of the loop body does with a customer: the skip counter it
\* increments before continue, or the emailType it calls sendEmail with
verdict(customer, todayDate) ==
    IF isUnsubscribed(customer[COL_SUB]) THEN skip("skippedNotSubscribed")
    ELSE IF customer[COL_MANUAL] = MISSING_CONTACT THEN skip("skippedNoContact")
    ELSE IF customer[COL_EMAIL] = EMPTY THEN skip("skippedNoEmail")
    ELSE IF customer[COL_NEXT] = EMPTY THEN skip("skippedNoReminderDate")
    ELSE LET nextReminder == parseDate(customer[COL_NEXT])
         IN  IF ~nextReminder.isValid THEN skip("skippedNoReminderDate")
             ELSE LET type == emailTypeFor(diffDays(nextReminder, todayDate))
                  IN  IF type = null THEN skip("skippedNotDue")
                      ELSE IF alreadySent(customer[COL_LAST_SENT], customer[COL_TYPE],
                                          toISODate(todayDate), type)
                      THEN skip("skippedAlreadySent")
                      ELSE [skip |-> "", type |-> type]

\* faulty variant: a send that succeeded leaves no trace on the customer
markSentUnstamped(customer, todayStr, type) == customer

\* the try branch after sendEmail resolves: the tracking fields are set
markSent(customer, todayStr, type) ==
    [customer EXCEPT ![COL_LAST_SENT] = todayStr, ![COL_TYPE] = type]

\* the catch branch after sendEmail rejects: the customer is left alone
markFailed(customer, todayStr, type) == customer

\* faulty variant: the error of sendEmail escapes the loop
abortOnFailure == "error"

\* where the loop goes after the catch branch
afterFailure == "loop"

\* faulty variant: the list is handed over with every record in it twice
repeatedArgument(objs, sorted) ==
    [k \in 1..(2 * Len(objs)) |-> ((k - 1) % Len(objs)) + 1]

\* faulty variant: the sorted copy is handed to sendReminders
sortedArgument(objs, sorted) == sorted

\* the list mainSync hands to sendReminders: processedCustomers, in row order
remindersArgument(objs, sorted) == [k \in 1..Len(objs) |-> k]

(***************************************************************************)
(* updateReminderFieldsInMaster (src/api/sync.js).                         *)
(***************************************************************************)
fieldsToUpdate == <<COL_NEXT, COL_MANUAL, COL_LAST_SENT, COL_TYPE, COL_SUB>>

keyOf(name, plate) == name \o <<"|">> \o plate

\* byKey[key]: Object.fromEntries keeps the last customer of the list with that key
byKey(objs, list, key) ==
    LET hits == {k \in 1..Len(list) :
                    keyOf(objs[list[k]][COL_NAME], objs[list[k]][COL_PLATE]) = key}
    IN  IF hits = {} THEN <<>> ELSE <<objs[list[SetMax(hits)]]>>

\* idx[h]: Object.fromEntries keeps the last column with that label; 0 when undefined
columnIndex(header, h) ==
    IF h \in Range(header) THEN SetMax({i \in 1..Len(header) : header[i] = h}) ELSE 0

\* a faulty variant: the loop that pads newRow is left out, and a cell beyond
\* the end of the row is not written
updatedRowUnpadded(row, masterHeader, objs, list, fields) ==
    LET name  == trim(cellAt(row, columnIndex(masterHeader, COL_NAME)))
        plate == trim(cellAt(row, columnIndex(masterHeader, COL_PLATE)))
        found == byKey(objs, list, keyOf(name, plate))
    IN  IF found = <<>> THEN row
        ELSE [c \in 1..Len(row) |->
                IF \E f \in 1..Len(fields) : columnIndex(masterHeader, fields[f]) = c
                THEN found[1][masterHeader[c]]
                ELSE cellAt(row, c)]

\* one row of updatedRows: the row itself when no customer has its key, else
\* the row padded to the header's width with the listed fields overwritten
updatedRow(row, masterHeader, objs, list, fields) ==
    LET name  == trim(cellAt(row, columnIndex(masterHeader, COL_NAME)))
        plate == trim(cellAt(row, columnIndex(masterHeader, COL_PLATE)))
        found == byKey(objs, list, keyOf(name, plate))
        width == IF Len(row) > Len(masterHeader) THEN Len(row) ELSE Len(masterHeader)
    IN  IF found = <<>> THEN row
        ELSE [c \in 1..width |->
                IF \E f \in 1..Len(fields) : columnIndex(masterHeader, fields[f]) = c
                THEN found[1][masterHeader[c]]
                ELSE cellAt(row, c)]

\* the rows are fetched again, rewritten by key and written back from row 2
updateFields(sheet, objs, list, fields) ==
    IF Len(sheet) <= 1 THEN sheet
    ELSE valuesUpdate(sheet, 2,
             [r \in 1..(Len(sheet) - 1) |-> updatedRow(sheet[r + 1], sheet[1], objs, list, fields)])

\* the sheet after updateReminderFieldsInMaster
updateReminderFieldsInMaster(sheet, objs, list) == updateFields(sheet, objs, list, fieldsToUpdate)

(***************************************************************************)
(* getConfig (src/api/sync.js): the settings syncAndNotify cannot run      *)
(* without.  An environment is the set of the names that are set.          *)
(***************************************************************************)
REQUIRED_ENV == {"SPREADSHEET_ID", "GOOGLE_CLIENT_EMAIL", "GOOGLE_PRIVATE_KEY",
                 "GOOGLE_PROJECT_ID"}

\* a faulty variant: only the spreadsheet id is looked at
getConfigSheetOnly(e) ==
    IF "SPREADSHEET_ID" \notin e THEN "SPREADSHEET_ID missing" ELSE "ok"

\* getConfig(env): the message of the Error thrown, or "ok" when it returns
getConfig(e) ==
    IF "SPREADSHEET_ID" \notin e THEN "SPREADSHEET_ID missing"
    ELSE IF \/ "GOOGLE_CLIENT_EMAIL" \notin e
            \/ "GOOGLE_PRIVATE_KEY" \notin e
            \/ "GOOGLE_PROJECT_ID" \notin e
    THEN "Google Service Account env vars missing"
    ELSE "ok"

(***************************************************************************)
(* State.                                                                  *)
(*   master, reminders, statusLog  the three sheets of the spreadsheet     *)
(*   clock, ticks                  the wall-clock day, and the midnights   *)
(*                                 crossed so far                          *)
(*   runNo, pc                     the run of mainSync in progress and its *)
(*                                 position                                *)
(*   masterRows ... skipped        the locals of mainSync and sendReminders*)
(*   decisions                     what the loop of the current run logged *)
(*                                 for each customer it has examined       *)
(*   mail                          the calls of sendEmail made so far      *)
(*   returned                      the summaries returned by finished runs *)
(*   ops                           the reads, writes and sends of the      *)
(*                                 current run, in the order they were made*)
(*   masterSorted, overwriteMaster the Master_Sorted sheet and the         *)
(*                                 OVERWRITE_MASTER setting                *)
(*   cellText, normalDate          the text of a date cell handed to a     *)
(*                                 normalizer, and the date it returned    *)
(*   nextDate                      the date three months after normalDate  *)
(*   env                           the names of the settings that are set  *)
(*                                 in the environment of syncAndNotify     *)
(***************************************************************************)
VARIABLES master, reminders, statusLog, clock, ticks, runNo, pc,
          masterRows, ensuredHeader, processedCustomers, sortedCustomers,
          customers, today, idx, emailType, sent, failed, failures, skipped,
          decisions, mail, returned, ops, masterSorted, overwriteMaster,
          cellText, normalDate, nextDate, env

vars == <<master, reminders, statusLog, clock, ticks, runNo, pc,
          masterRows, ensuredHeader, processedCustomers, sortedCustomers,
          customers, today, idx, emailType, sent, failed, failures, skipped,
          decisions, mail, returned, ops, masterSorted, overwriteMaster,
          cellText, normalDate, nextDate, env>>

\* the Master_Sorted sheet and the OVERWRITE_MASTER setting of syncAndNotify
notifyVars == <<masterSorted, overwriteMaster>>

\* a date cell on its own, what the normalizer made of it, and the due date
\* computed from that
dateVars == <<cellText, normalDate, nextDate>>

\* one entry of ops: a read or write of a sheet, or a call of the mail transport;
\* a read carries the header row it returned, an update the columns it writes
storageOp(kind, sheet, fields) == [op |-> kind, sheet |-> sheet, fields |-> fields]

sheetVars == <<master, reminders, statusLog>>

fetchVars == <<masterRows, ensuredHeader>>

processVars == <<processedCustomers, sortedCustomers>>

loopVars == <<customers, today, idx, emailType, sent, failed, failures, skipped, decisions>>

noSkips == [c \in {"skippedNotSubscribed", "skippedNoContact", "skippedNoEmail",
                   "skippedNoReminderDate", "skippedNotDue", "skippedAlreadySent"} |-> 0]

(***************************************************************************)
(* The source tables the runs start from.                                  *)
(***************************************************************************)
Day0 == DateOf(2024, 6, 10)

\* dd/MM/yyyy, one of the formats a Last Visit cell is typed in
slashDMY(dt) == Pad(dt.day, 2) \o <<"/">> \o Pad(dt.month, 2) \o <<"/">> \o Pad(dt.year, 4)

\* a data row under the full header
fullRow(name, plate, email, phone, lastVisit, next, lastSent, type, sub) ==
    <<name, plate, email, phone, lastVisit, next, EMPTY, EMPTY, lastSent, type, sub>>

\* Last Visit cells whose due date falls n days after Day0 (n = -1, 0, 1, 7, 8)
visitOverdue == slashDMY(DateOf(2024, 3, 9))
visitDue     == toISODate(DateOf(2024, 3, 10))
visitIn1     == toFormatDMY(DateOf(2024, 3, 11))
visitIn7     == toISODate(DateOf(2024, 3, 17))
visitIn8     == toISODate(DateOf(2024, 3, 18))
notADate     == <<"n", "/", "a">>
staleNext    == toFormatDMY(DateOf(2020, 1, 1))

RowPool ==
    { fullRow(<<"A">>, <<"P">>, <<"x">>, EMPTY, visitDue, EMPTY, EMPTY, EMPTY, EMPTY),
      fullRow(<<"A", " ">>, <<"P">>, <<"y">>, <<"1">>, visitOverdue, staleNext, EMPTY, EMPTY,
              <<"s", "u", "b", "s", "c", "r", "i", "b", "e", "d">>),
      fullRow(<<"b">>, <<"Q">>, <<"x">>, EMPTY, visitDue, EMPTY, toISODate(Day0), DUE_TODAY, EMPTY),
      fullRow(<<"b">>, <<"Q">>, <<"z">>, EMPTY, visitDue, EMPTY, toISODate(Day0), OVERDUE, EMPTY),
      fullRow(<<"B">>, <<"R">>, <<"x">>, EMPTY, visitDue, EMPTY, toISODate(DateOf(2024, 6, 9)),
              DUE_TODAY, EMPTY),
      fullRow(<<"a">>, <<"S">>, <<"x">>, <<"1">>, visitIn7, EMPTY, EMPTY, EMPTY, EMPTY),
      fullRow(<<"a">>, <<"T">>, <<"x">>, EMPTY, visitIn8, staleNext, EMPTY, EMPTY, EMPTY),
      fullRow(<<"c">>, <<"U">>, <<"x">>, EMPTY, visitIn1, EMPTY, EMPTY, EMPTY, EMPTY),
      fullRow(<<"A">>, <<"V">>, <<"x">>, EMPTY, visitDue, EMPTY, EMPTY, EMPTY,
              <<" ", "U", "n", "s", "u", "b", "s", "c", "r", "i", "b", "e", "d", " ">>),
      fullRow(<<"A">>, <<"W">>, <<"x">>, <<"1">>, visitOverdue, EMPTY, EMPTY, EMPTY, NOT_SUBSCRIBED),
      fullRow(<<"C">>, <<"X">>, EMPTY, <<"1">>, visitDue, EMPTY, EMPTY, EMPTY, EMPTY),
      fullRow(<<"C">>, <<"Y">>, EMPTY, EMPTY, visitDue, EMPTY, EMPTY, EMPTY, EMPTY),
      fullRow(<<"d">>, <<"Z">>, <<"x">>, EMPTY, EMPTY, staleNext, EMPTY, EMPTY, EMPTY),
      fullRow(<<"d">>, <<"Z">>, <<"x">>, EMPTY, notADate, EMPTY, EMPTY, EMPTY, EMPTY) }

\* a sheet that has never been synced: the five input columns only
baseHeader == SubSeq(REQUIRED_COLUMNS, 1, 5)

BaseRowPool ==
    { <<<<"A">>, <<"P">>, <<"x">>, EMPTY, visitDue>>,
      <<<<"b">>, <<"Q">>, EMPTY, EMPTY, visitOverdue>> }

Tables ==
    {<<>>}
    \cup {sheetValues(<<REQUIRED_COLUMNS>> \o rows) :
             rows \in UNION {[1..n -> RowPool] : n \in 0..MaxRows}}
    \cup {sheetValues(<<baseHeader>> \o rows) :
             rows \in UNION {[1..n -> BaseRowPool] : n \in 1..MaxRows}}

Init ==
    /\ master \in Tables
    /\ reminders = <<>>
    /\ statusLog = <<>>
    /\ clock = Day0
    /\ ticks = 0
    /\ runNo = 0
    /\ pc = "idle"
    /\ masterRows = <<>>
    /\ ensuredHeader = <<>>
    /\ processedCustomers = <<>>
    /\ sortedCustomers = <<>>
    /\ customers = <<>>
    /\ today = Day0
    /\ idx = 0
    /\ emailType = null
    /\ sent = 0
    /\ failed = 0
    /\ failures = <<>>
    /\ skipped = noSkips
    /\ decisions = <<>>
    /\ mail = <<>>
    /\ returned = <<>>
    /\ ops = <<>>
    /\ masterSorted = <<>>
    /\ cellText = EMPTY
    /\ normalDate = Invalid
    /\ nextDate = Invalid
    /\ env = REQUIRED_ENV
    /\ overwriteMaster = FALSE

(***************************************************************************)
(* Actions: one per awaited call of mainSync.                              *)
(***************************************************************************)
\* midnight passes; the clock is read when sendReminders starts and when the
\* log row is stamped, so the crossings that can be told apart are those
\* between runs, during a send and after the last send
Tick ==
    /\ ticks < MaxTicks
    /\ pc \in {"idle", "done", "error", "sending", "log"}
    /\ clock' = nextDay(clock)
    /\ ticks' = ticks + 1
    /\ UNCHANGED <<sheetVars, runNo, pc, fetchVars, processVars, loopVars, mail, returned>>
    /\ UNCHANGED ops
    /\ UNCHANGED <<notifyVars, dateVars, env>>

\* step 2: fetchSheetRows resolves, then ensureColumns
Fetch ==
    /\ pc \in {"idle", "done", "error"}
    /\ runNo < MaxRuns
    /\ runNo' = runNo + 1
    /\ masterRows' = IF master = <<>> THEN <<>> ELSE Tail(master)
    /\ ensuredHeader' = ensureColumns(rowAt(master, 1), REQUIRED_COLUMNS)
    /\ pc' = IF headerChanged(rowAt(master, 1), REQUIRED_COLUMNS) THEN "updateHeader" ELSE "process"
    /\ UNCHANGED <<sheetVars, clock, ticks, processVars, loopVars, mail, returned>>
    /\ ops' = <<storageOp("read", "master", rowAt(master, 1))>>
    /\ UNCHANGED <<notifyVars, dateVars, env>>

\* step 2: fetchSheetRows rejects; mainSync rethrows and nothing was written
FetchFail ==
    /\ pc \in {"idle", "done", "error"}
    /\ runNo < MaxRuns
    /\ runNo' = runNo + 1
    /\ pc' = "error"
    /\ UNCHANGED <<sheetVars, clock, ticks, fetchVars, processVars, loopVars, mail, returned>>
    /\ ops' = <<storageOp("readFailed", "master", <<>>)>>
    /\ UNCHANGED <<notifyVars, dateVars, env>>

\* step 2: updateSheetHeader
UpdateHeader ==
    /\ pc = "updateHeader"
    /\ master' = valuesUpdate(master, 1, <<ensuredHeader>>)
    /\ pc' = "process"
    /\ UNCHANGED <<reminders, statusLog, clock, ticks, runNo, fetchVars, processVars,
                   loopVars, mail, returned>>
    /\ ops' = Append(ops, storageOp("header", "master", <<>>))
    /\ UNCHANGED <<notifyVars, dateVars, env>>

\* steps 3 to 5: processCustomers, the sort and writeProcessedData
WriteReminders ==
    /\ pc = "process"
    /\ LET objs == processCustomers(masterRows, ensuredHeader)
       IN  /\ processedCustomers' = objs
           /\ sortedCustomers' = sortByName(objs)
           /\ reminders' = valuesUpdate(reminders, 1,
                               processedValues(objs, sortByName(objs), ensuredHeader))
    /\ pc' = "sendReminders"
    /\ UNCHANGED <<master, statusLog, clock, ticks, runNo, fetchVars, loopVars, mail, returned>>
    /\ ops' = Append(ops, storageOp("overwrite", "reminders", <<>>))
    /\ UNCHANGED <<notifyVars, dateVars, env>>

\* step 6: sendReminders is entered; today is read from the clock
BeginSendReminders ==
    /\ pc = "sendReminders"
    /\ customers' = remindersArgument(processedCustomers, sortedCustomers)
    /\ today' = clock
    /\ idx' = 1
    /\ emailType' = null
    /\ sent' = 0
    /\ failed' = 0
    /\ failures' = <<>>
    /\ skipped' = noSkips
    /\ decisions' = <<>>
    /\ pc' = "loop"
    /\ UNCHANGED <<sheetVars, clock, ticks, runNo, fetchVars, processVars, mail, returned>>
    /\ UNCHANGED ops
    /\ UNCHANGED <<notifyVars, dateVars, env>>

\* one pass of the for loop up to continue or to the call of sendEmail
Examine ==
    /\ pc = "loop"
    /\ idx \in 1..Len(customers)
    /\ LET customer == processedCustomers[customers[idx]]
           v        == verdict(customer, today)
       IN  /\ decisions' = Append(decisions, [pos |-> customers[idx],
                                            outcome |-> IF v.skip = "" THEN "send" ELSE v.skip])
           /\ IF v.skip = ""
              THEN /\ emailType' = v.type
                   /\ mail' = Append(mail, [run |-> runNo, pos |-> customers[idx],
                                            to |-> customer[COL_EMAIL], type |-> v.type,
                                            todayStr |-> toISODate(today),
                                            result |-> "pending"])
                   /\ pc' = "sending"
                   /\ ops' = Append(ops, storageOp("send", "mail", <<>>))
                   /\ UNCHANGED <<idx, skipped>>
              ELSE /\ skipped' = [skipped EXCEPT ![v.skip] = @ + 1]
                   /\ idx' = idx + 1
                   /\ UNCHANGED <<emailType, mail, pc, ops>>
    /\ UNCHANGED <<sheetVars, clock, ticks, runNo, fetchVars, processVars, customers, today,
                   sent, failed, failures, returned>>
    /\ UNCHANGED <<notifyVars, dateVars, env>>

\* sendEmail resolves
SendOk ==
    /\ pc = "sending"
    /\ sent' = sent + 1
    /\ processedCustomers' = [processedCustomers EXCEPT ![customers[idx]] =
                                 markSent(@, toISODate(today), emailType)]
    /\ mail' = [mail EXCEPT ![Len(mail)].result = "ok"]
    /\ idx' = idx + 1
    /\ pc' = "loop"
    /\ UNCHANGED <<sheetVars, clock, ticks, runNo, fetchVars, sortedCustomers, customers, today,
                   emailType, failed, failures, skipped, decisions, returned>>
    /\ UNCHANGED ops
    /\ UNCHANGED <<notifyVars, dateVars, env>>

\* sendEmail rejects
SendFail ==
    /\ pc = "sending"
    /\ failed' = failed + 1
    /\ failures' = Append(failures, <<processedCustomers[customers[idx]][COL_NAME],
                                      processedCustomers[customers[idx]][COL_EMAIL]>>)
    /\ processedCustomers' = [processedCustomers EXCEPT ![customers[idx]] =
                                 markFailed(@, toISODate(today), emailType)]
    /\ mail' = [mail EXCEPT ![Len(mail)].result = "failed"]
    /\ idx' = idx + 1
    /\ pc' = afterFailure
    /\ UNCHANGED <<sheetVars, clock, ticks, runNo, fetchVars, sortedCustomers, customers, today,
                   emailType, sent, skipped, decisions, returned>>
    /\ UNCHANGED ops
    /\ UNCHANGED <<notifyVars, dateVars, env>>

\* step 7: the loop is over; updateReminderFieldsInMaster
UpdateMaster ==
    /\ pc = "loop"
    /\ idx > Len(customers)
    /\ master' = updateReminderFieldsInMaster(master, processedCustomers, customers)
    /\ pc' = "log"
    /\ UNCHANGED <<reminders, statusLog, clock, ticks, runNo, fetchVars, processVars, loopVars,
                   mail, returned>>
    /\ ops' = IF Len(master) > 1
              THEN Append(ops, storageOp("update", "master", fieldsToUpdate))
              ELSE ops
    /\ UNCHANGED <<notifyVars, dateVars, env>>

\* faulty variant: every attempt is reported as sent
summaryCountingAttempts(run, objs, nSent, nFailed, list) ==
    [run |-> run, processed |-> Len(objs), remindersSent |-> nSent + nFailed,
     remindersFailed |-> nFailed, failures |-> list]

\* step 9: the summary mainSync returns, tagged with the run it belongs to
summaryOf(run, objs, nSent, nFailed, list) ==
    [run |-> run, processed |-> Len(objs), remindersSent |-> nSent,
     remindersFailed |-> nFailed, failures |-> list]

\* steps 8 and 9: appendSheetRow, then the summary is returned
AppendLog ==
    /\ pc = "log"
    /\ statusLog' = valuesAppend(statusLog,
                        [timestamp |-> toISODate(clock), processed |-> Len(processedCustomers),
                         sent |-> sent, failed |-> failed, failures |-> failures])
    /\ returned' = Append(returned, summaryOf(runNo, processedCustomers, sent, failed, failures))
    /\ pc' = "done"
    /\ UNCHANGED <<master, reminders, clock, ticks, runNo, fetchVars, processVars, loopVars, mail>>
    /\ ops' = Append(ops, storageOp("append", "statusLog", <<>>))
    /\ UNCHANGED <<notifyVars, dateVars, env>>

Next ==
    \/ Tick
    \/ Fetch
    \/ FetchFail
    \/ UpdateHeader
    \/ WriteReminders
    \/ BeginSendReminders
    \/ Examine
    \/ SendOk
    \/ SendFail
    \/ UpdateMaster
    \/ AppendLog

Spec == Init /\ [][Next]_vars

(***************************************************************************)
(* Notions the properties below are stated with.                           *)
(***************************************************************************)
\* the customer record at source position p, as the loop sees it
customerAt(p) == processedCustomers[p]

\* the calls of sendEmail made by the current run
mailOfRun == {k \in 1..Len(mail) : mail[k].run = runNo}

\* tier of a record that is n days from its due date
tierOf(n) ==
    IF n > 7 THEN null
    ELSE IF n > 0 THEN ADVANCE_7DAY
    ELSE IF n = 0 THEN DUE_TODAY
    ELSE OVERDUE

\* whole days from today to the next reminder date of the record at p
daysLeft(p) == diffDays(parseDate(customerAt(p)[COL_NEXT]), today)

\* the record at p carries the stamp of a notification of tier t sent today
stampedToday(p, t) ==
    customerAt(p)[COL_LAST_SENT] = toISODate(today) /\ customerAt(p)[COL_TYPE] = t

\* the Subscription cell of source row p as fetched by the current run
subscriptionCell(p) == cellAt(masterRows[p], columnIndex(ensuredHeader, COL_SUB))

optedOut(cell) == toUpperCase(trim(cell)) \in {NOT_SUBSCRIBED, UNSUBSCRIBED}

\* the loop has decided about the record at p and went on to sendEmail
attempted(p) == \E k \in 1..Len(decisions) : decisions[k].pos = p /\ decisions[k].outcome = "send"

inLoop == pc \in {"loop", "sending", "log", "done"}

(***************************************************************************)
(* C1: a send of tier T is attempted only if the record is not stamped     *)
(* (today, T); a record is passed over as already sent only if it is       *)
(* stamped with today's date and with its own tier, so a stamp of today    *)
(* with another tier, or of its tier with another date, does not suppress. *)
(***************************************************************************)
C1_DedupGuard ==
    /\ pc = "sending" => ~stampedToday(customers[idx], emailType)
    /\ inLoop =>
          \A k \in 1..Len(decisions) :
              decisions[k].outcome = "skippedAlreadySent"
                  => stampedToday(decisions[k].pos, tierOf(daysLeft(decisions[k].pos)))

\* a send is in flight for a record stamped today with another tier
C1_Witness ==
    /\ pc = "sending"
    /\ customerAt(customers[idx])[COL_LAST_SENT] = toISODate(today)
    /\ customerAt(customers[idx])[COL_TYPE] \notin {EMPTY, emailType}

(***************************************************************************)
(* C4: a record that reaches classification n days before its due date is  *)
(* passed over as not due when n > 7 and is otherwise classified, as       *)
(* ADVANCE_7DAY when 0 < n <= 7, DUE_TODAY when n = 0, OVERDUE when n < 0. *)
(***************************************************************************)
C4_TierClassification ==
    /\ pc = "sending" =>
          /\ daysLeft(customers[idx]) <= 7
          /\ emailType = tierOf(daysLeft(customers[idx]))
    /\ inLoop =>
          /\ \A k \in mailOfRun : mail[k].type = tierOf(daysLeft(mail[k].pos))
          /\ \A k \in 1..Len(decisions) :
                /\ decisions[k].outcome = "skippedNotDue" => daysLeft(decisions[k].pos) > 7
                /\ decisions[k].outcome \in {"skippedAlreadySent", "send"}
                       => daysLeft(decisions[k].pos) <= 7

\* one run has sent an advance notice 7 days ahead, a due-today notice and
\* an overdue notice, or has passed over a record 8 days ahead
C4_Witness ==
    /\ pc = "done"
    /\ \/ \E k \in 1..Len(decisions) :
             decisions[k].outcome = "skippedNotDue" /\ daysLeft(decisions[k].pos) = 8
       \/ \E i, j \in mailOfRun :
             /\ mail[i].type = DUE_TODAY /\ daysLeft(mail[i].pos) = 0
             /\ mail[j].type = OVERDUE /\ daysLeft(mail[j].pos) < 0
    /\ \E k \in mailOfRun : mail[k].type = ADVANCE_7DAY /\ daysLeft(mail[k].pos) = 7

(***************************************************************************)
(* C7: no send is attempted for a record whose Subscription cell reads     *)
(* NOT SUBSCRIBED or UNSUBSCRIBED in any letter case, blanks around it     *)
(* ignored.                                                                *)
(***************************************************************************)
C7_UnsubscribedNeverSent ==
    inLoop =>
        /\ \A k \in mailOfRun : ~optedOut(subscriptionCell(mail[k].pos))
        /\ \A k \in 1..Len(decisions) :
              optedOut(subscriptionCell(decisions[k].pos)) => decisions[k].outcome # "send"

\* a due record typed " Unsubscribed " with an email address was passed over
C7_Witness ==
    /\ pc = "done"
    /\ \E k \in 1..Len(decisions) :
          /\ decisions[k].outcome = "skippedNotSubscribed"
          /\ subscriptionCell(decisions[k].pos) \notin {NOT_SUBSCRIBED, UNSUBSCRIBED}
          /\ customerAt(decisions[k].pos)[COL_EMAIL] # EMPTY
          /\ daysLeft(decisions[k].pos) = 0

(***************************************************************************)
(* C8: every send goes to a non-empty address, and a record with an email  *)
(* and no phone is attempted whenever it is subscribed, falls in a tier    *)
(* and is not stamped with today's date and its tier.                      *)
(***************************************************************************)
C8_EmailEligibility ==
    inLoop =>
        /\ \A k \in mailOfRun :
              mail[k].to # EMPTY /\ mail[k].to = customerAt(mail[k].pos)[COL_EMAIL]
        /\ \A k \in 1..Len(decisions) :
              LET p == decisions[k].pos
              IN  ( /\ customerAt(p)[COL_EMAIL] # EMPTY
                    /\ customerAt(p)[COL_PHONE] = EMPTY
                    /\ ~optedOut(subscriptionCell(p))
                    /\ parseDate(customerAt(p)[COL_NEXT]).isValid
                    /\ daysLeft(p) <= 7
                    /\ ~stampedToday(p, tierOf(daysLeft(p))) )
                  => decisions[k].outcome = "send"

\* a send to a record without a phone number has failed, so that the record
\* still carries the state the loop examined
C8_Witness ==
    \E k \in mailOfRun :
        /\ mail[k].result = "failed"
        /\ customerAt(mail[k].pos)[COL_PHONE] = EMPTY
        /\ ~stampedToday(mail[k].pos, mail[k].type)

(***************************************************************************)
(* C9: the sends of a run are made one at a time and in source-row order:  *)
(* each call of sendEmail has ended before the next one starts, and the    *)
(* source positions of the calls increase.                                 *)
(***************************************************************************)
C9_SendOrder ==
    \A i, j \in 1..Len(mail) :
        i < j => /\ mail[i].result # "pending"
                 /\ mail[i].run <= mail[j].run
                 /\ mail[i].run = mail[j].run => mail[i].pos < mail[j].pos

\* two sends of one run over a table whose name order is not its row order
C9_Witness ==
    /\ pc = "done"
    /\ Cardinality(mailOfRun) >= 2
    /\ sortedCustomers # [k \in 1..Len(sortedCustomers) |-> k]

\* the calls of sendEmail of the current run that were rejected
failedCalls == {k \in mailOfRun : mail[k].result = "failed"}

(***************************************************************************)
(* C6: a failed send does not abort the run: the run only ends in error    *)
(* before its first send, failed and failures count the rejected calls one *)
(* for one, every record is examined, and the finished run has written its *)
(* log row and returned its summary.                                       *)
(***************************************************************************)
C6_FailureIsNotFatal ==
    /\ pc = "error" => mailOfRun = {}
    /\ inLoop =>
          /\ failed = Cardinality(failedCalls)
          /\ Len(failures) = failed
          /\ \A k \in mailOfRun : mail[k].result = "failed" => attempted(mail[k].pos)
    /\ pc \in {"log", "done"} =>
          /\ Len(decisions) = Len(masterRows)
          /\ \A p \in 1..Len(masterRows) : \E k \in 1..Len(decisions) : decisions[k].pos = p
    /\ pc = "done" =>
          /\ Len(statusLog) = Len(returned)
          /\ returned[Len(returned)].run = runNo
          /\ returned[Len(returned)].remindersFailed = Cardinality(failedCalls)
          /\ Len(returned[Len(returned)].failures) = Cardinality(failedCalls)
          /\ statusLog[Len(statusLog)].failed = Cardinality(failedCalls)

\* a run has finished in which a send failed and a later send succeeded
C6_Witness ==
    /\ pc = "done"
    /\ \E i, j \in mailOfRun : i < j /\ mail[i].result = "failed" /\ mail[j].result = "ok"

(***************************************************************************)
(* Notions about the source table across runs.                             *)
(***************************************************************************)
\* the cell of source row p under the column labelled h, as stored now
storedCell(p, h) == cellAt(rowAt(master, p + 1), columnIndex(rowAt(master, 1), h))

\* the same cell as the current run fetched it
fetchedCell(p, h) == cellAt(masterRows[p], columnIndex(ensuredHeader, h))

\* the current run has been through updateReminderFieldsInMaster
persisted == pc \in {"log", "done"}

\* two rows of the fetched table carry the same name and registration number
sharedKey(p, q) ==
    /\ p # q
    /\ keyOf(customerAt(p)[COL_NAME], customerAt(p)[COL_PLATE])
           = keyOf(customerAt(q)[COL_NAME], customerAt(q)[COL_PLATE])

hasSharedKey == \E p, q \in 1..Len(processedCustomers) : sharedKey(p, q)

(***************************************************************************)
(* C5: when a send of tier T succeeds, the record is stamped (today, T),   *)
(* and once the run has written the reminder fields back, the row of that  *)
(* record in the source table holds today's date and T.                    *)
(***************************************************************************)
C5_SuccessIsStored ==
    /\ inLoop =>
          \A k \in mailOfRun :
              mail[k].result = "ok" =>
                  /\ customerAt(mail[k].pos)[COL_LAST_SENT] = mail[k].todayStr
                  /\ customerAt(mail[k].pos)[COL_TYPE] = mail[k].type
    /\ persisted =>
          \A k \in mailOfRun :
              mail[k].result = "ok" =>
                  /\ storedCell(mail[k].pos, COL_LAST_SENT) = mail[k].todayStr
                  /\ storedCell(mail[k].pos, COL_TYPE) = mail[k].type

(***************************************************************************)
(* C3: when a send fails, the Last Email Sent and Email Type of the record *)
(* stay as the run found them, in memory and in the source table, and a    *)
(* following run on the same day attempts the send again.                  *)
(***************************************************************************)
C3_FailureLeavesState ==
    /\ inLoop =>
          \A k \in mailOfRun :
              mail[k].result = "failed" =>
                  /\ customerAt(mail[k].pos)[COL_LAST_SENT] = trim(fetchedCell(mail[k].pos, COL_LAST_SENT))
                  /\ customerAt(mail[k].pos)[COL_TYPE] = trim(fetchedCell(mail[k].pos, COL_TYPE))
    /\ persisted =>
          /\ \A k \in mailOfRun :
                mail[k].result = "failed" =>
                    /\ storedCell(mail[k].pos, COL_LAST_SENT) = fetchedCell(mail[k].pos, COL_LAST_SENT)
                    /\ storedCell(mail[k].pos, COL_TYPE) = fetchedCell(mail[k].pos, COL_TYPE)
          /\ \A i \in 1..Len(mail) :
                ( /\ mail[i].run + 1 = runNo
                  /\ mail[i].result = "failed"
                  /\ mail[i].todayStr = toISODate(today) )
                => \E j \in mailOfRun : mail[j].pos = mail[i].pos

(***************************************************************************)
(* C2: of two complete runs on the same day over the same source table,    *)
(* the second sends nothing to a record whose send succeeded in the first. *)
(***************************************************************************)
C2_NoResendSameDay ==
    \A i, j \in 1..Len(mail) :
        ( /\ mail[i].run < mail[j].run
          /\ mail[i].result = "ok"
          /\ mail[i].todayStr = mail[j].todayStr )
        => mail[i].pos # mail[j].pos

(***************************************************************************)
(* mainSync of src/index.js: the same pipeline over eight columns, with    *)
(* the reminder fields written back before the reminder pass, Next         *)
(* Reminder Date kept as an ISO date and reminders gated on Status.        *)
(***************************************************************************)
INDEX_REQUIRED_COLUMNS == SubSeq(REQUIRED_COLUMNS, 1, 8)

NOT_SERVICED == <<"N", "O", "T", " ", "S", "E", "R", "V", "I", "C", "E", "D">>

indexFieldsToUpdate == <<COL_NEXT, COL_MANUAL>>

indexRowObject(row, header) ==
    [col \in Range(header) \cup Range(INDEX_REQUIRED_COLUMNS) |->
        IF col \in Range(header)
        THEN trim(cellAt(row, SetMax({i \in 1..Len(header) : header[i] = col})))
        ELSE EMPTY]

\* Next Reminder Date: lastVisit.plus({ months: 3 }).toISODate(), or ""
indexNextReminderOf(lastVisitStr) ==
    LET lastVisit == parseDate(lastVisitStr)
    IN  IF lastVisit.isValid THEN toISODate(plusMonths(lastVisit, 3)) ELSE EMPTY

indexProcessCustomers(rows, header) ==
    [k \in 1..Len(rows) |->
        LET obj == indexRowObject(rows[k], header)
        IN  [obj EXCEPT ![COL_NEXT] = indexNextReminderOf(obj[COL_LAST_VISIT]),
                        ![COL_MANUAL] = IF obj[COL_EMAIL] = EMPTY /\ obj[COL_PHONE] = EMPTY
                                        THEN MISSING_CONTACT ELSE EMPTY]]

\* a faulty variant: the Status of the record is not looked at
indexVerdictAnyStatus(customer, todayStr, now) ==
    IF customer[COL_MANUAL] = MISSING_CONTACT THEN "skip"
    ELSE IF customer[COL_EMAIL] = EMPTY THEN "skip"
    ELSE LET nextReminder == customer[COL_NEXT]
             next         == fromISO(nextReminder)
             overdue      == /\ nextReminder # EMPTY
                             /\ next.isValid
                             /\ diffDays(next, now) < 0
         IN  IF overdue THEN "overdueEmailTemplate"
             ELSE IF nextReminder = todayStr THEN "regularEmailTemplate"
             ELSE "skip"

\* one pass of the loop of sendReminders: today is the string fixed before
\* the loop, now is what DateTime.now().startOf("day") returns in this pass
indexVerdict(customer, todayStr, now) ==
    IF customer[COL_MANUAL] = MISSING_CONTACT THEN "skip"
    ELSE IF customer[COL_EMAIL] = EMPTY THEN "skip"
    ELSE LET nextReminder == customer[COL_NEXT]
             status       == toUpperCase(customer[COL_STATUS])
             next         == fromISO(nextReminder)
             overdue      == /\ nextReminder # EMPTY
                             /\ next.isValid
                             /\ status = NOT_SERVICED
                             /\ diffDays(next, now) < 0
         IN  IF overdue THEN "overdueEmailTemplate"
             ELSE IF nextReminder = todayStr /\ status = NOT_SERVICED THEN "regularEmailTemplate"
             ELSE "skip"

\* the source tables of src/index.js
indexRow(name, email, phone, lastVisit, status) ==
    <<name, <<"P">>, email, phone, lastVisit, EMPTY, EMPTY, status>>

IndexRowPool ==
    { indexRow(<<"A">>, <<"x">>, EMPTY, visitDue, NOT_SERVICED),
      indexRow(<<"b">>, <<"y">>, <<"1">>, visitDue, <<"n", "o", "t", " ", "s", "e", "r", "v", "i", "c", "e", "d">>),
      indexRow(<<"B">>, <<"x">>, EMPTY, visitOverdue, NOT_SERVICED),
      indexRow(<<"a">>, <<"z">>, EMPTY, visitIn1, NOT_SERVICED),
      indexRow(<<"c">>, <<"x">>, EMPTY, visitDue, <<"S", "E", "R", "V", "I", "C", "E", "D">>),
      indexRow(<<"C">>, EMPTY, <<"1">>, visitDue, NOT_SERVICED),
      indexRow(<<"d">>, EMPTY, EMPTY, visitOverdue, NOT_SERVICED),
      indexRow(<<"D">>, <<"x">>, EMPTY, notADate, NOT_SERVICED) }

IndexTables ==
    {<<>>}
    \cup {sheetValues(<<INDEX_REQUIRED_COLUMNS>> \o rows) :
             rows \in UNION {[1..n -> IndexRowPool] : n \in 0..MaxRows}}
    \cup {sheetValues(<<baseHeader>> \o rows) :
             rows \in UNION {[1..n -> BaseRowPool] : n \in 1..MaxRows}}

InitIndex ==
    /\ master \in IndexTables
    /\ reminders = <<>>
    /\ statusLog = <<>>
    /\ clock = Day0
    /\ ticks = 0
    /\ runNo = 0
    /\ pc = "idle"
    /\ masterRows = <<>>
    /\ ensuredHeader = <<>>
    /\ processedCustomers = <<>>
    /\ sortedCustomers = <<>>
    /\ customers = <<>>
    /\ today = Day0
    /\ idx = 0
    /\ emailType = null
    /\ sent = 0
    /\ failed = 0
    /\ failures = <<>>
    /\ skipped = noSkips
    /\ decisions = <<>>
    /\ mail = <<>>
    /\ returned = <<>>
    /\ ops = <<>>
    /\ masterSorted = <<>>
    /\ cellText = EMPTY
    /\ normalDate = Invalid
    /\ nextDate = Invalid
    /\ env = REQUIRED_ENV
    /\ overwriteMaster = FALSE

\* step 2: fetchSheetRows resolves, then ensureColumns
IndexFetch ==
    /\ pc \in {"idle", "done", "error"}
    /\ runNo < MaxRuns
    /\ runNo' = runNo + 1
    /\ masterRows' = IF master = <<>> THEN <<>> ELSE Tail(master)
    /\ ensuredHeader' = ensureColumns(rowAt(master, 1), INDEX_REQUIRED_COLUMNS)
    /\ pc' = IF headerChanged(rowAt(master, 1), INDEX_REQUIRED_COLUMNS)
             THEN "updateHeader" ELSE "process"
    /\ UNCHANGED <<sheetVars, clock, ticks, processVars, loopVars, mail, returned>>
    /\ ops' = <<storageOp("read", "master", rowAt(master, 1))>>
    /\ UNCHANGED <<notifyVars, dateVars, env>>

\* step 2: fetchSheetRows rejects and mainSync rejects with it
IndexFetchFail ==
    /\ pc \in {"idle", "done", "error"}
    /\ runNo < MaxRuns
    /\ runNo' = runNo + 1
    /\ pc' = "error"
    /\ UNCHANGED <<sheetVars, clock, ticks, fetchVars, processVars, loopVars, mail, returned>>
    /\ ops' = <<storageOp("readFailed", "master", <<>>)>>
    /\ UNCHANGED <<notifyVars, dateVars, env>>

\* step 2: updateSheetHeader
IndexUpdateHeader ==
    /\ pc = "updateHeader"
    /\ master' = valuesUpdate(master, 1, <<ensuredHeader>>)
    /\ pc' = "process"
    /\ UNCHANGED <<reminders, statusLog, clock, ticks, runNo, fetchVars, processVars,
                   loopVars, mail, returned>>
    /\ ops' = Append(ops, storageOp("header", "master", <<>>))
    /\ UNCHANGED <<notifyVars, dateVars, env>>

\* steps 3 to 5: processCustomers, the sort and writeProcessedData
IndexWriteReminders ==
    /\ pc = "process"
    /\ LET objs == indexProcessCustomers(masterRows, ensuredHeader)
       IN  /\ processedCustomers' = objs
           /\ sortedCustomers' = sortByName(objs)
           /\ reminders' = valuesUpdate(reminders, 1,
                               processedValues(objs, sortByName(objs), ensuredHeader))
    /\ pc' = "updateMaster"
    /\ UNCHANGED <<master, statusLog, clock, ticks, runNo, fetchVars, loopVars, mail, returned>>
    /\ ops' = Append(ops, storageOp("overwrite", "reminders", <<>>))
    /\ UNCHANGED <<notifyVars, dateVars, env>>

\* step 6: updateReminderFieldsInMaster, before any reminder is sent
IndexUpdateMaster ==
    /\ pc = "updateMaster"
    /\ master' = updateFields(master, processedCustomers,
                              [k \in 1..Len(processedCustomers) |-> k], indexFieldsToUpdate)
    /\ pc' = "sendReminders"
    /\ UNCHANGED <<reminders, statusLog, clock, ticks, runNo, fetchVars, processVars, loopVars,
                   mail, returned>>
    /\ ops' = IF Len(master) > 1
              THEN Append(ops, storageOp("update", "master", indexFieldsToUpdate))
              ELSE ops
    /\ UNCHANGED <<notifyVars, dateVars, env>>

\* step 7: sendReminders is entered; today is read from the clock
IndexBeginSendReminders ==
    /\ pc = "sendReminders"
    /\ customers' = [k \in 1..Len(processedCustomers) |-> k]
    /\ today' = clock
    /\ idx' = 1
    /\ emailType' = null
    /\ sent' = 0
    /\ failed' = 0
    /\ failures' = <<>>
    /\ decisions' = <<>>
    /\ pc' = "loop"
    /\ UNCHANGED <<sheetVars, clock, ticks, runNo, fetchVars, processVars, skipped, mail, returned>>
    /\ UNCHANGED ops
    /\ UNCHANGED <<notifyVars, dateVars, env>>

\* one pass of the for loop up to continue or to the call of sendEmail; the
\* overdue test reads the clock again
IndexExamine ==
    /\ pc = "loop"
    /\ idx \in 1..Len(customers)
    /\ LET customer == processedCustomers[customers[idx]]
           template == indexVerdict(customer, toISODate(today), clock)
       IN  /\ decisions' = Append(decisions, [pos |-> customers[idx], outcome |-> template])
           /\ IF template # "skip"
              THEN /\ mail' = Append(mail, [run |-> runNo, pos |-> customers[idx],
                                            to |-> customer[COL_EMAIL], type |-> template,
                                            todayStr |-> toISODate(today),
                                            result |-> "pending"])
                   /\ pc' = "sending"
                   /\ ops' = Append(ops, storageOp("send", "mail", <<>>))
                   /\ UNCHANGED idx
              ELSE /\ idx' = idx + 1
                   /\ UNCHANGED <<mail, pc, ops>>
    /\ UNCHANGED <<sheetVars, clock, ticks, runNo, fetchVars, processVars, customers, today,
                   emailType, sent, failed, failures, skipped, returned>>
    /\ UNCHANGED <<notifyVars, dateVars, env>>

\* sendEmail resolves
IndexSendOk ==
    /\ pc = "sending"
    /\ sent' = sent + 1
    /\ mail' = [mail EXCEPT ![Len(mail)].result = "ok"]
    /\ idx' = idx + 1
    /\ pc' = "loop"
    /\ UNCHANGED <<sheetVars, clock, ticks, runNo, fetchVars, processVars, customers, today,
                   emailType, failed, failures, skipped, decisions, returned>>
    /\ UNCHANGED ops
    /\ UNCHANGED <<notifyVars, dateVars, env>>

\* sendEmail rejects
IndexSendFail ==
    /\ pc = "sending"
    /\ failed' = failed + 1
    /\ failures' = Append(failures, <<processedCustomers[customers[idx]][COL_EMAIL]>>)
    /\ mail' = [mail EXCEPT ![Len(mail)].result = "failed"]
    /\ idx' = idx + 1
    /\ pc' = "loop"
    /\ UNCHANGED <<sheetVars, clock, ticks, runNo, fetchVars, processVars, customers, today,
                   emailType, sent, skipped, decisions, returned>>
    /\ UNCHANGED ops
    /\ UNCHANGED <<notifyVars, dateVars, env>>

\* the loop is over and sendReminders returns
IndexEndSendReminders ==
    /\ pc = "loop"
    /\ idx > Len(customers)
    /\ pc' = "log"
    /\ UNCHANGED <<sheetVars, clock, ticks, runNo, fetchVars, processVars, loopVars, mail,
                   returned>>
    /\ UNCHANGED ops
    /\ UNCHANGED <<notifyVars, dateVars, env>>

\* steps 8 and 9: appendSheetRow, then the summary is returned
IndexAppendLog ==
    /\ pc = "log"
    /\ statusLog' = valuesAppend(statusLog,
                        [timestamp |-> toISODate(clock), processed |-> Len(processedCustomers),
                         sent |-> sent, failed |-> failed, failures |-> failures])
    /\ returned' = Append(returned, summaryOf(runNo, processedCustomers, sent, failed, failures))
    /\ pc' = "done"
    /\ UNCHANGED <<master, reminders, clock, ticks, runNo, fetchVars, processVars, loopVars, mail>>
    /\ ops' = Append(ops, storageOp("append", "statusLog", <<>>))
    /\ UNCHANGED <<notifyVars, dateVars, env>>

\* between two runs the owner of the spreadsheet deletes the last data row of
\* the master sheet; the next run fetches the shorter table
OwnerDeletesLastRow ==
    /\ pc \in {"idle", "done", "error"}
    /\ Len(master) > 1
    /\ master' = SubSeq(master, 1, Len(master) - 1)
    /\ UNCHANGED <<reminders, statusLog, clock, ticks, runNo, pc, fetchVars, processVars,
                   loopVars, mail, returned, ops, notifyVars, dateVars, env>>

NextIndex ==
    \/ Tick
    \/ OwnerDeletesLastRow
    \/ IndexFetch
    \/ IndexFetchFail
    \/ IndexUpdateHeader
    \/ IndexWriteReminders
    \/ IndexUpdateMaster
    \/ IndexBeginSendReminders
    \/ IndexExamine
    \/ IndexSendOk
    \/ IndexSendFail
    \/ IndexEndSendReminders
    \/ IndexAppendLog

SpecIndex == InitIndex /\ [][NextIndex]_vars

(***************************************************************************)
(* C10: within one run every record is evaluated against the one value of  *)
(* today that was fixed when the reminder pass started, also when midnight *)
(* passes between two sends: what the pass decides for a record is what    *)
(* that fixed day gives.                                                   *)
(***************************************************************************)
C10_SingleToday ==
    inLoop =>
        \A k \in 1..Len(decisions) :
            decisions[k].outcome
                = indexVerdict(customerAt(decisions[k].pos), toISODate(today), today)

(***************************************************************************)
(* C12: on every run the Next Reminder Date of a record is computed from   *)
(* its Last Visit: after processCustomers it is Last Visit plus 3 months   *)
(* when Last Visit parses and empty otherwise, whatever the column held.   *)
(***************************************************************************)
\* processCustomers has run over the rows of the current run
processed == pc \in {"sendReminders", "loop", "sending", "log", "done"}

\* the due date of a Last Visit cell, as text
dueDate(lastVisitCell) ==
    LET lastVisit == parseDate(trim(lastVisitCell))
    IN  IF lastVisit.isValid THEN toFormatDMY(plusMonths(lastVisit, 3)) ELSE EMPTY

C12_NextReminderRecomputed ==
    processed =>
        \A p \in 1..Len(masterRows) :
            customerAt(p)[COL_NEXT] = dueDate(fetchedCell(p, COL_LAST_VISIT))

\* the column held a date that is not the due date, once for a record whose
\* Last Visit parses and once for a record whose Last Visit is empty
C12_Witness ==
    /\ processed
    /\ \E p, q \in 1..Len(masterRows) :
          /\ fetchedCell(p, COL_NEXT) \notin {EMPTY, customerAt(p)[COL_NEXT]}
          /\ customerAt(p)[COL_NEXT] # EMPTY
          /\ fetchedCell(q, COL_NEXT) # EMPTY
          /\ fetchedCell(q, COL_LAST_VISIT) = EMPTY
          /\ customerAt(q)[COL_NEXT] = EMPTY

(***************************************************************************)
(* C14: the derived values computed from the source row at position i are  *)
(* written back to the row at position i, also when two rows carry the     *)
(* same name and registration number: once the run has written back, every *)
(* row holds the Next Reminder Date and Manual Contact computed from it.   *)
(***************************************************************************)
C14_WriteBackByPosition ==
    persisted =>
        \A p \in 1..Len(masterRows) :
            /\ storedCell(p, COL_NEXT) = customerAt(p)[COL_NEXT]
            /\ storedCell(p, COL_MANUAL) = customerAt(p)[COL_MANUAL]

(***************************************************************************)
(* C15: a run changes in the source table only the derived columns (Next   *)
(* Reminder Date, Manual Contact) and the notification-state columns (Last *)
(* Email Sent, Email Type): every other cell of every data row holds after *)
(* the write-back the value the run fetched.                               *)
(***************************************************************************)
\* the columns a run may change
runOwnedColumns == {COL_NEXT, COL_MANUAL, COL_LAST_SENT, COL_TYPE}

C15_OtherCellsUntouched ==
    persisted =>
        \A p \in 1..Len(masterRows) :
            \A h \in Range(ensuredHeader) \ runOwnedColumns :
                storedCell(p, h) = fetchedCell(p, h)

(***************************************************************************)
(* C17: in every complete run over a table with data rows the operations   *)
(* come in this order: a write of the derived columns to the master sheet, *)
(* the overwrite of the reminders sheet, all calls of sendEmail, a write   *)
(* of the notification-state columns to the master sheet, the append of    *)
(* the log row; so the derived columns are stored before the first send.   *)
(***************************************************************************)
writesColumns(o, columns) ==
    /\ o.op = "update"
    /\ o.sheet = "master"
    /\ columns \subseteq Range(o.fields)

C17_OperationOrder ==
    (pc = "done" /\ Len(masterRows) > 0) =>
        \E d, r, n, a \in 1..Len(ops) :
            /\ d < r /\ r < n /\ n < a
            /\ writesColumns(ops[d], {COL_NEXT, COL_MANUAL})
            /\ ops[r] = storageOp("overwrite", "reminders", <<>>)
            /\ writesColumns(ops[n], {COL_LAST_SENT, COL_TYPE})
            /\ ops[a] = storageOp("append", "statusLog", <<>>)
            /\ \A k \in 1..Len(ops) : ops[k].op = "send" => (r < k /\ k < n)

(***************************************************************************)
(* C19: when the initial read of the master sheet fails, or the sheet is   *)
(* empty and so has no header row, the run ends in an error raised to the  *)
(* caller and makes no write, no send and no append to the log.            *)
(***************************************************************************)
\* the current run could not read the master sheet, or read it empty
noUsableHeader ==
    /\ ops # <<>>
    /\ \/ ops[1].op = "readFailed"
       \/ ops[1].op = "read" /\ ops[1].fields = <<>>

C19_FatalBeforeAnyWrite ==
    noUsableHeader =>
        /\ Len(ops) = 1
        /\ pc \notin {"log", "done"}

(***************************************************************************)
(* C20: after every complete run the reminders sheet holds the header row  *)
(* followed by one row per record of the master sheet as the run fetched   *)
(* it, in name order, and nothing else; no row of an earlier run over a    *)
(* longer table remains.                                                   *)
(***************************************************************************)
C20_RemindersFullyOverwritten ==
    pc = "done" =>
        /\ Len(reminders) = Len(masterRows) + 1
        /\ rowAt(reminders, 1) = ensuredHeader
        /\ \A k \in 1..Len(masterRows) :
              \A c \in 1..Len(ensuredHeader) :
                  cellAt(rowAt(reminders, k + 1), c)
                      = customerAt(sortedCustomers[k])[ensuredHeader[c]]
        /\ \A k \in 1..(Len(masterRows) - 1) :
              localeCompare(customerAt(sortedCustomers[k])[COL_NAME],
                            customerAt(sortedCustomers[k + 1])[COL_NAME]) <= 0

(***************************************************************************)
(* syncAndNotify (src/unnamed/part_003, and its copy in src/api/sync.js):  *)
(* the master sheet is read with unformatted values, so a date cell comes  *)
(* as its serial number; the derived columns are written back by position, *)
(* the Reminders and Master_Sorted sheets are cleared and rewritten, and   *)
(* every record that is due is mailed and logged.                          *)
(***************************************************************************)
\* the value of process.env.SEND_OFFSET_DAYS when it is not set
SEND_OFFSET_DAYS == 0

\* the serial number of 1970-01-01, the constant of serialToJSDate
EPOCH_SERIAL == 25569

\* ordinal of 1970-01-01, the day a Date of 0 ms falls on
EPOCH_ORDINAL == ordinal(DateOf(1970, 1, 1))

RECURSIVE yearFrom(_, _)
\* the year the day with ordinal n falls in, searched upwards from year y
yearFrom(n, y) == IF ordinal(DateOf(y + 1, 1, 1)) > n THEN y ELSE yearFrom(n, y + 1)

RECURSIVE monthFrom(_, _, _)
monthFrom(n, y, m) ==
    IF m = 12 \/ ordinal(DateOf(y, m + 1, 1)) > n THEN m ELSE monthFrom(n, y, m + 1)

\* DateTime.fromJSDate(date, { zone: "utc" }) for the Date n days after 1970-01-01
fromJSDate(n) ==
    LET o == n + EPOCH_ORDINAL
        y == yearFrom(o, (o \div 366) + 1)
        m == monthFrom(o, y, 1)
    IN  DateOf(y, m, o - ordinal(DateOf(y, m, 1)) + 1)

\* Number(value) for a cell of blanks and digits; any other text is NaN
Number(value) ==
    LET s == trim(value)
    IN  IF s = EMPTY THEN [nan |-> FALSE, n |-> 0]
        ELSE IF AllDigits(s) THEN [nan |-> FALSE, n |-> Num(s)]
        ELSE [nan |-> TRUE, n |-> 0]

\* isNaN(value)
isNaN(value) == Number(value).nan

\* serialToJSDate(serial), as the number of days from 1970-01-01; null is
\* the value with nan set
serialToJSDate(serial) ==
    LET v == Number(serial)
    IN  IF v.nan THEN [nan |-> TRUE, n |-> 0] ELSE [nan |-> FALSE, n |-> v.n - EPOCH_SERIAL]

\* isoDateFromAny(value), as a date (invalid for null): a number is a serial,
\* a text is tried as ISO, dd-MM-yyyy, dd/MM/yyyy and MM/dd/yyyy in this order
isoDateFromAny(value) ==
    IF value = EMPTY THEN Invalid
    ELSE IF ~isNaN(value) THEN fromJSDate(serialToJSDate(value).n)
    ELSE LET s  == trim(value)
             d1 == fromISO(s)
             d2 == fromFormat(s, FMT_DMY_HY)
             d3 == fromFormat(s, FMT_DMY_SL)
             d4 == fromFormat(s, FMT_MDY_SL)
         IN  IF d1.isValid THEN d1
             ELSE IF d2.isValid THEN d2
             ELSE IF d3.isValid THEN d3
             ELSE IF d4.isValid THEN d4
             ELSE Invalid

\* isoLast of the loop over customers: the raw cell is first tested with
\* isNaN, and a cell that passes is read as a serial number
isoLastOf(lastRaw) ==
    IF ~isNaN(lastRaw) THEN fromJSDate(serialToJSDate(lastRaw).n) ELSE isoDateFromAny(lastRaw)

\* nextDisplay of the loop over customers
nextDisplayOf(lastRaw) ==
    LET isoLast == isoLastOf(lastRaw)
    IN  IF isoLast.isValid THEN toFormatDMY(plusMonths(isoLast, 3)) ELSE EMPTY

\* the labels syncAndNotify looks each column up by, in the order it tries them
VARIANTS ==
    [name   |-> <<<<"n", "a", "m", "e">>, <<"c", "u", "s", "t", "o", "m", "e", "r", " ", "n", "a", "m", "e">>, <<"f", "u", "l", "l", " ", "n", "a", "m", "e">>>>,
     plate  |-> <<<<"p", "l", "a", "t", "e", " ", "n", "u", "m", "b", "e", "r">>, <<"p", "l", "a", "t", "e">>, <<"p", "l", "a", "t", "e", "_", "n", "o">>>>,
     email  |-> <<<<"e", "m", "a", "i", "l">>, <<"e", "m", "a", "i", "l", " ", "a", "d", "d", "r", "e", "s", "s">>>>,
     phone  |-> <<<<"p", "h", "o", "n", "e">>, <<"p", "h", "o", "n", "e", " ", "n", "u", "m", "b", "e", "r">>, <<"m", "o", "b", "i", "l", "e">>>>,
     last   |-> <<<<"l", "a", "s", "t", " ", "s", "e", "r", "v", "i", "c", "e", " ", "d", "a", "t", "e">>, <<"l", "a", "s", "t", "s", "e", "r", "v", "i", "c", "e", "d", "a", "t", "e">>, <<"l", "a", "s", "t", " ", "v", "i", "s", "i", "t">>,
                  <<"l", "a", "s", "t", " ", "v", "i", "s", "i", "t", " ", "d", "a", "t", "e">>>>,
     next   |-> <<<<"n", "e", "x", "t", " ", "r", "e", "m", "i", "n", "d", "e", "r", " ", "d", "a", "t", "e">>, <<"n", "e", "x", "t", "r", "e", "m", "i", "n", "d", "e", "r", "d", "a", "t", "e">>, <<"n", "e", "x", "t", " ", "v", "i", "s", "i", "t">>,
                  <<"n", "e", "x", "t", " ", "v", "i", "s", "i", "t", " ", "d", "a", "t", "e">>>>,
     manual |-> <<<<"m", "a", "n", "u", "a", "l", " ", "c", "o", "n", "t", "a", "c", "t">>, <<"m", "a", "n", "u", "a", "l", "_", "c", "o", "n", "t", "a", "c", "t">>, <<"m", "a", "n", "u", "a", "l", "c", "o", "n", "t", "a", "c", "t">>>>]

NEXT_REMINDER_DATE == <<"N", "e", "x", "t", " ", "R", "e", "m", "i", "n", "d", "e", "r", " ", "D", "a", "t", "e">>
MANUAL_CONTACT == <<"M", "a", "n", "u", "a", "l", " ", "C", "o", "n", "t", "a", "c", "t">>

\* remindersHeader of syncAndNotify
remindersHeader ==
    <<<<"N", "a", "m", "e">>, <<"P", "l", "a", "t", "e", " ", "N", "u", "m", "b", "e", "r">>, <<"E", "m", "a", "i", "l">>, <<"P", "h", "o", "n", "e">>, <<"L", "a", "s", "t", " ", "S", "e", "r", "v", "i", "c", "e", " ", "D", "a", "t", "e">>,
      NEXT_REMINDER_DATE, MANUAL_CONTACT, <<"S", "t", "a", "t", "u", "s">>>>

\* pickIndex(variants): the place (counted from 1; 0 stands for -1) of the
\* first variant that is one of the lower-cased headers, at its first occurrence
pickIndex(headers, variants) ==
    LET hits  == {h \in (1..Len(variants)) \X (1..Len(headers)) :
                     toLowerCase(headers[h[2]]) = variants[h[1]]}
        first == SetMin({h[1] : h \in hits})
    IN  IF hits = {} THEN 0 ELSE SetMin({h[2] : h \in {g \in hits : g[1] = first}})

\* a faulty variant: the missing labels are put in front of the header
unshiftedHeaders(headers) ==
    LET h1 == IF pickIndex(headers, VARIANTS.next) = 0
              THEN <<NEXT_REMINDER_DATE>> \o headers ELSE headers
    IN  IF pickIndex(headers, VARIANTS.manual) = 0 THEN <<MANUAL_CONTACT>> \o h1 ELSE h1

\* headers after the two headers.push of syncAndNotify
pushedHeaders(headers) ==
    LET h1 == IF pickIndex(headers, VARIANTS.next) = 0
              THEN Append(headers, NEXT_REMINDER_DATE) ELSE headers
    IN  IF pickIndex(headers, VARIANTS.manual) = 0 THEN Append(h1, MANUAL_CONTACT) ELSE h1

\* readMaster().headers: every label of the first row trimmed
readHeaders(sheet) ==
    LET first == rowAt(sheet, 1)
    IN  [k \in 1..Len(first) |-> trim(first[k])]

\* one element of customers, with its entries of nextDatesDisplay and manualFlags
notifyCustomer(row, headers) ==
    LET email == cellAt(row, pickIndex(headers, VARIANTS.email))
        phone == cellAt(row, pickIndex(headers, VARIANTS.phone))
        lastRaw == cellAt(row, pickIndex(headers, VARIANTS.last))
    IN  [name |-> cellAt(row, pickIndex(headers, VARIANTS.name)),
         plate |-> cellAt(row, pickIndex(headers, VARIANTS.plate)),
         email |-> email,
         phone |-> phone,
         lastRaw |-> lastRaw,
         nextDisplay |-> nextDisplayOf(lastRaw),
         manual |-> IF email = EMPTY /\ phone = EMPTY THEN MISSING_CONTACT ELSE EMPTY]

notifyCustomers(rows, headers) == [k \in 1..Len(rows) |-> notifyCustomer(rows[k], headers)]

\* updateMasterColumn(headerIndex, rowsData): the cells of one column from
\* row 2 down are overwritten; row 1 is not part of the range
updateMasterColumn(sheet, col, rowsData) ==
    LET n == IF Len(sheet) > Len(rowsData) + 1 THEN Len(sheet) ELSE Len(rowsData) + 1
        newRow(r) ==
            LET old == rowAt(sheet, r)
                w   == IF Len(old) > col THEN Len(old) ELSE col
            IN  IF r - 1 \in 1..Len(rowsData)
                THEN [c \in 1..w |-> IF c = col THEN rowsData[r - 1] ELSE cellAt(old, c)]
                ELSE old
    IN  IF rowsData = <<>> THEN sheet ELSE sheetValues([r \in 1..n |-> newRow(r)])

\* writeSheet(sheetName, values2D): values.clear, then values.update
writeSheet(values2D) == sheetValues(values2D)

\* the positions of the rows in the order of the sort by lower-cased name
sortByLowerName(names) ==
    LET n == Len(names)
        cmp(j, i) == localeCompare(toLowerCase(names[j]), toLowerCase(names[i]))
        before(j, i) == cmp(j, i) < 0 \/ (cmp(j, i) = 0 /\ j < i)
        rank(i) == Cardinality({j \in 1..n : before(j, i)}) + 1
    IN  [r \in 1..n |-> CHOOSE i \in 1..n : rank(i) = r]

\* remindersRows, sorted, under remindersHeader
remindersValues(cs) ==
    LET order == sortByLowerName([k \in 1..Len(cs) |-> cs[k].name])
    IN  <<remindersHeader>> \o
        [k \in 1..Len(cs) |->
            LET c == cs[order[k]]
            IN  <<c.name, c.plate, c.email, c.phone, c.lastRaw, c.nextDisplay, c.manual, EMPTY>>]

\* masterRowsWithHeader without its first row: each row padded to the width
\* of headers, with the two derived cells set
masterRowsWithDerived(rows, headers, cs) ==
    LET idxNext   == pickIndex(headers, VARIANTS.next)
        idxManual == pickIndex(headers, VARIANTS.manual)
    IN  [k \in 1..Len(rows) |->
            LET w == IF Len(rows[k]) > Len(headers) THEN Len(rows[k]) ELSE Len(headers)
            IN  [c \in 1..w |->
                    IF c = idxManual THEN cs[k].manual
                    ELSE IF c = idxNext THEN cs[k].nextDisplay
                    ELSE cellAt(rows[k], c)]]

\* masterSortedValues
masterSortedValues(rows, headers, cs) ==
    LET derived == masterRowsWithDerived(rows, headers, cs)
        idxName == pickIndex(headers, VARIANTS.name)
        order   == sortByLowerName([k \in 1..Len(rows) |-> cellAt(derived[k], idxName)])
    IN  <<headers>> \o [k \in 1..Len(rows) |-> derived[order[k]]]

\* the master sheets syncAndNotify starts from: a sheet synced before, with
\* the two derived columns, and a sheet with the five input columns only
notifyHeader ==
    <<<<"N", "a", "m", "e">>, <<"P", "l", "a", "t", "e", " ", "N", "u", "m", "b", "e", "r">>, <<"E", "m", "a", "i", "l">>, <<"P", "h", "o", "n", "e">>, <<"L", "a", "s", "t", " ", "S", "e", "r", "v", "i", "c", "e", " ", "D", "a", "t", "e">>,
      NEXT_REMINDER_DATE, MANUAL_CONTACT>>

\* the serial number the sheet returns for a date cell, as the text of its digits
serialCell(dt) == Pad(ordinal(dt) - EPOCH_ORDINAL + EPOCH_SERIAL, 5)

\* master sheets whose header names the last-service column twice, by two
\* synonyms in the reverse of their order in the list, and spells labels in
\* other letter case
synonymHeader ==
    <<<<"N", "a", "m", "e">>, <<"P", "l", "a", "t", "e", " ", "N", "u", "m", "b", "e", "r">>, <<"E", "m", "a", "i", "l">>, <<"P", "h", "o", "n", "e">>, <<"L", "a", "s", "t", " ", "V", "i", "s", "i", "t">>,
      <<"L", "A", "S", "T", " ", "S", "E", "R", "V", "I", "C", "E", " ", "D", "A", "T", "E">>, <<"n", "e", "x", "t", " ", "r", "e", "m", "i", "n", "d", "e", "r", " ", "d", "a", "t", "e">>, MANUAL_CONTACT>>

SynonymTables ==
    {sheetValues(<<synonymHeader>> \o rows) :
        rows \in UNION {[1..n -> { <<<<"A">>, <<"P">>, <<"x">>, EMPTY, toISODate(DateOf(2024, 1, 10)),
                                     visitDue>>,
                                   <<<<"b">>, <<"Q">>, EMPTY, <<"1">>, visitIn8, visitOverdue>> }] :
                           n \in 1..MaxRows}}

NotifyRowPool ==
    { <<<<"A">>, <<"P">>, <<"x">>, EMPTY, serialCell(DateOf(2024, 3, 10))>>,
      <<<<"b">>, <<"Q">>, EMPTY, EMPTY, visitOverdue, staleNext>>,
      <<<<"c">>, <<"R">>, <<"y">>, <<"1">>>>,
      <<<<"B">>, <<"S">>, <<"x">>, EMPTY, notADate>>,
      <<<<"a">>, <<"T">>, <<"x">>, EMPTY, visitIn8, staleNext>>,
      <<<<"a">>, <<"U">>, EMPTY, <<"1">>, <<" ">>>> }

NotifyTables ==
    {<<>>}
    \cup {sheetValues(<<notifyHeader>> \o rows) :
             rows \in UNION {[1..n -> NotifyRowPool] : n \in 0..MaxRows}}
    \cup {sheetValues(<<SubSeq(notifyHeader, 1, 5)>> \o rows) :
             rows \in UNION {[1..n -> {SubSeq(r, 1, Len(r) - (IF Len(r) > 5 THEN 1 ELSE 0)) :
                                          r \in NotifyRowPool}] : n \in 1..MaxRows}}
    \cup SynonymTables

\* the environments syncAndNotify is loaded in: the required settings with
\* the gmail account complete, or with its password missing
NotifyEnvPool ==
    {REQUIRED_ENV \cup {"EMAIL_USER", "EMAIL_PASS"}, REQUIRED_ENV \cup {"EMAIL_USER"}}

InitNotify ==
    /\ master \in NotifyTables
    /\ overwriteMaster \in BOOLEAN
    /\ reminders = <<>>
    /\ masterSorted = <<>>
    /\ cellText = EMPTY
    /\ normalDate = Invalid
    /\ nextDate = Invalid
    /\ env \in NotifyEnvPool
    /\ statusLog = <<>>
    /\ clock = Day0
    /\ ticks = 0
    /\ runNo = 0
    /\ pc = "idle"
    /\ masterRows = <<>>
    /\ ensuredHeader = <<>>
    /\ processedCustomers = <<>>
    /\ sortedCustomers = <<>>
    /\ customers = <<>>
    /\ today = Day0
    /\ idx = 0
    /\ emailType = null
    /\ sent = 0
    /\ failed = 0
    /\ failures = <<>>
    /\ skipped = noSkips
    /\ decisions = <<>>
    /\ mail = <<>>
    /\ returned = <<>>
    /\ ops = <<>>

\* the locals of mainSync that syncAndNotify has no counterpart of
mainSyncOnly == <<sortedCustomers, customers, emailType, sent, failed, failures, skipped,
                  decisions>>

\* readMaster resolves; an empty sheet makes syncAndNotify throw, otherwise the
\* columns are located, the missing labels pushed and the loop over customers
\* fills nextDatesDisplay and manualFlags
NotifyReadMaster ==
    /\ pc \in {"idle", "done", "error"}
    /\ runNo < MaxRuns
    /\ runNo' = runNo + 1
    /\ ops' = <<storageOp("read", "master", readHeaders(master))>>
    /\ IF readHeaders(master) = <<>>
       THEN /\ pc' = "error"
            /\ UNCHANGED <<fetchVars, processedCustomers>>
       ELSE LET headers == pushedHeaders(readHeaders(master))
            IN  /\ masterRows' = Tail(master)
                /\ ensuredHeader' = headers
                /\ processedCustomers' = notifyCustomers(Tail(master), headers)
                /\ pc' = "updateNext"
    /\ UNCHANGED <<sheetVars, notifyVars, clock, ticks, today, idx, mail, returned, mainSyncOnly, dateVars, env>>

\* readMaster rejects
NotifyReadFail ==
    /\ pc \in {"idle", "done", "error"}
    /\ runNo < MaxRuns
    /\ runNo' = runNo + 1
    /\ ops' = <<storageOp("readFailed", "master", <<>>)>>
    /\ pc' = "error"
    /\ UNCHANGED <<sheetVars, notifyVars, clock, ticks, fetchVars, processedCustomers, today,
                   idx, mail, returned, mainSyncOnly, dateVars, env>>

\* updateMasterColumn(idxNext, nextDatesDisplay)
NotifyUpdateNext ==
    /\ pc = "updateNext"
    /\ LET idxNext == pickIndex(ensuredHeader, VARIANTS.next)
       IN  /\ master' = updateMasterColumn(master, idxNext,
                            [k \in 1..Len(processedCustomers) |->
                                processedCustomers[k].nextDisplay])
           /\ ops' = Append(ops, storageOp("update", "master", <<ensuredHeader[idxNext]>>))
    /\ pc' = "updateManual"
    /\ UNCHANGED <<reminders, statusLog, notifyVars, clock, ticks, runNo, fetchVars,
                   processedCustomers, today, idx, mail, returned, mainSyncOnly, dateVars, env>>

\* updateMasterColumn(idxManual, manualFlags)
NotifyUpdateManual ==
    /\ pc = "updateManual"
    /\ LET idxManual == pickIndex(ensuredHeader, VARIANTS.manual)
       IN  /\ master' = updateMasterColumn(master, idxManual,
                            [k \in 1..Len(processedCustomers) |-> processedCustomers[k].manual])
           /\ ops' = Append(ops, storageOp("update", "master", <<ensuredHeader[idxManual]>>))
    /\ pc' = "writeReminders"
    /\ UNCHANGED <<reminders, statusLog, notifyVars, clock, ticks, runNo, fetchVars,
                   processedCustomers, today, idx, mail, returned, mainSyncOnly, dateVars, env>>

\* writeSheet(REMINDERS_SHEET, [remindersHeader, ...remindersRows])
NotifyWriteReminders ==
    /\ pc = "writeReminders"
    /\ reminders' = writeSheet(remindersValues(processedCustomers))
    /\ ops' = Append(ops, storageOp("overwrite", "reminders", <<>>))
    /\ pc' = "writeSorted"
    /\ UNCHANGED <<master, statusLog, notifyVars, clock, ticks, runNo, fetchVars,
                   processedCustomers, today, idx, mail, returned, mainSyncOnly, dateVars, env>>

\* writeSheet(MASTER_SORTED_SHEET, masterSortedValues)
NotifyWriteSorted ==
    /\ pc = "writeSorted"
    /\ masterSorted' = writeSheet(masterSortedValues(masterRows, ensuredHeader,
                                                     processedCustomers))
    /\ ops' = Append(ops, storageOp("overwrite", "masterSorted", <<>>))
    /\ pc' = IF overwriteMaster THEN "overwrite" ELSE "today"
    /\ UNCHANGED <<sheetVars, overwriteMaster, clock, ticks, runNo, fetchVars,
                   processedCustomers, today, idx, mail, returned, mainSyncOnly, dateVars, env>>

\* if (OVERWRITE_MASTER) writeSheet(MASTER_SHEET, masterSortedValues)
NotifyOverwriteMaster ==
    /\ pc = "overwrite"
    /\ master' = writeSheet(masterSortedValues(masterRows, ensuredHeader, processedCustomers))
    /\ ops' = Append(ops, storageOp("overwrite", "master", ensuredHeader))
    /\ pc' = "today"
    /\ UNCHANGED <<reminders, statusLog, notifyVars, clock, ticks, runNo, fetchVars,
                   processedCustomers, today, idx, mail, returned, mainSyncOnly, dateVars, env>>

\* todayISO is read from the clock and the loop over customers starts
NotifyBeginLoop ==
    /\ pc = "today"
    /\ today' = clock
    /\ idx' = 1
    /\ pc' = "loop"
    /\ UNCHANGED <<sheetVars, notifyVars, clock, ticks, runNo, fetchVars, processedCustomers,
                   mail, returned, ops, mainSyncOnly, dateVars, env>>

\* emailSender is set: with the default provider, gmail, when both the user
\* and the password are set
emailSender(e) == "EMAIL_USER" \in e /\ "EMAIL_PASS" \in e

\* one row of the status log
statusRow(c, sendResult) ==
    [timestamp |-> toISODate(clock), name |-> c.name, plate |-> c.plate, email |-> c.email,
     sendResult |-> sendResult]

\* a faulty variant: a record is due only after its day has passed
isDueStrict(c, todayDate) ==
    LET parsed == fromFormat(c.nextDisplay, FMT_DMY_HY)
    IN  /\ c.nextDisplay # EMPTY
        /\ parsed.isValid
        /\ ordinal(parsed) - SEND_OFFSET_DAYS < ordinal(todayDate)

\* dueISO <= todayISO for the record c: its nextDisplay is parsed as dd-MM-yyyy
\* and moved back by SEND_OFFSET_DAYS; the two ISO dates compare as their days
isDue(c, todayDate) ==
    LET parsed == fromFormat(c.nextDisplay, FMT_DMY_HY)
    IN  /\ c.nextDisplay # EMPTY
        /\ parsed.isValid
        /\ ordinal(parsed) - SEND_OFFSET_DAYS <= ordinal(todayDate)

\* one pass of the loop up to continue, to the call of emailSender, or, for a
\* record without an address or when no sender is set, to the append of its
\* no-email row
NotifyExamine ==
    /\ pc = "loop"
    /\ idx \in 1..Len(processedCustomers)
    /\ LET c == processedCustomers[idx]
       IN  IF ~isDue(c, today)
           THEN /\ idx' = idx + 1
                /\ UNCHANGED <<statusLog, mail, ops, pc>>
           ELSE IF emailSender(env) /\ c.email # EMPTY
           THEN /\ mail' = Append(mail, [run |-> runNo, pos |-> idx, to |-> c.email,
                                         type |-> null, todayStr |-> toISODate(today),
                                         result |-> "pending"])
                /\ ops' = Append(ops, storageOp("send", "mail", <<>>))
                /\ pc' = "sending"
                /\ UNCHANGED <<statusLog, idx>>
           ELSE /\ statusLog' = valuesAppend(statusLog, statusRow(c, "no-email"))
                /\ ops' = Append(ops, storageOp("append", "statusLog", <<>>))
                /\ idx' = idx + 1
                /\ UNCHANGED <<mail, pc>>
    /\ UNCHANGED <<master, reminders, notifyVars, clock, ticks, runNo, fetchVars,
                   processedCustomers, today, returned, mainSyncOnly, dateVars, env>>

\* emailSender resolves, then appendStatusLog
NotifySendOk ==
    /\ pc = "sending"
    /\ mail' = [mail EXCEPT ![Len(mail)].result = "ok"]
    /\ statusLog' = valuesAppend(statusLog, statusRow(processedCustomers[idx], "sent"))
    /\ ops' = Append(ops, storageOp("append", "statusLog", <<>>))
    /\ idx' = idx + 1
    /\ pc' = "loop"
    /\ UNCHANGED <<master, reminders, notifyVars, clock, ticks, runNo, fetchVars,
                   processedCustomers, today, returned, mainSyncOnly, dateVars, env>>

\* emailSender rejects; the error is caught, then appendStatusLog
NotifySendFail ==
    /\ pc = "sending"
    /\ mail' = [mail EXCEPT ![Len(mail)].result = "failed"]
    /\ statusLog' = valuesAppend(statusLog, statusRow(processedCustomers[idx], "failed"))
    /\ ops' = Append(ops, storageOp("append", "statusLog", <<>>))
    /\ idx' = idx + 1
    /\ pc' = "loop"
    /\ UNCHANGED <<master, reminders, notifyVars, clock, ticks, runNo, fetchVars,
                   processedCustomers, today, returned, mainSyncOnly, dateVars, env>>

\* the loop is over and the message is returned
NotifyReturn ==
    /\ pc = "loop"
    /\ idx > Len(processedCustomers)
    /\ returned' = Append(returned, [run |-> runNo, processed |-> Len(processedCustomers)])
    /\ pc' = "done"
    /\ UNCHANGED <<sheetVars, notifyVars, clock, ticks, runNo, fetchVars, processedCustomers,
                   today, idx, mail, ops, mainSyncOnly, dateVars, env>>

NextNotify ==
    \/ Tick
    \/ NotifyReadMaster
    \/ NotifyReadFail
    \/ NotifyUpdateNext
    \/ NotifyUpdateManual
    \/ NotifyWriteReminders
    \/ NotifyWriteSorted
    \/ NotifyOverwriteMaster
    \/ NotifyBeginLoop
    \/ NotifyExamine
    \/ NotifySendOk
    \/ NotifySendFail
    \/ NotifyReturn

SpecNotify == InitNotify /\ [][NextNotify]_vars

(***************************************************************************)
(* C11: a record whose last-service cell is empty or holds no date gets an *)
(* empty next reminder date, and no notification is sent for it; the run   *)
(* goes on.  Stated for syncAndNotify, where the raw cell is first tested  *)
(* with isNaN.                                                             *)
(***************************************************************************)
\* the cell holds a serial number or a date in one of the accepted forms
hasServiceDate(cell) ==
    /\ trim(cell) # EMPTY
    /\ isNaN(cell) => isoDateFromAny(cell).isValid

C11_NoDateNoReminder ==
    \A p \in 1..Len(processedCustomers) :
        ~hasServiceDate(processedCustomers[p].lastRaw) =>
            /\ processedCustomers[p].nextDisplay = EMPTY
            /\ \A m \in 1..Len(mail) : ~(mail[m].run = runNo /\ mail[m].pos = p)

(***************************************************************************)
(* C16: a run never reorders the master sheet, whatever OVERWRITE_MASTER   *)
(* is: after a complete run of syncAndNotify every data row of the master  *)
(* sheet holds, in the columns the run does not derive, the cells of the   *)
(* row that was read at the same position.  Only the Reminders and         *)
(* Master_Sorted sheets are sorted by name.                                *)
(***************************************************************************)
\* the columns of the master sheet that syncAndNotify does not compute
inputColumns ==
    (1..Len(ensuredHeader)) \ {pickIndex(ensuredHeader, VARIANTS.next),
                               pickIndex(ensuredHeader, VARIANTS.manual)}

C16_SourceOrderKept ==
    pc = "done" =>
        \A p \in 1..Len(masterRows) :
            \A c \in inputColumns :
                cellAt(rowAt(master, p + 1), c) = cellAt(masterRows[p], c)

(***************************************************************************)
(* C18: when a run finds a derived column missing from the header it read  *)
(* and appends it, the extended header row is written to the master sheet  *)
(* before the first write of data cells of that run: every write of a      *)
(* column that the header read did not have comes after a write of the     *)
(* header row, and a complete run leaves every label in row 1.             *)
(***************************************************************************)
\* the k-th operation of the run writes data cells of a column that the
\* header row read by the run did not have
writesNewColumn(k) ==
    /\ ops[k].op = "update"
    /\ ops[k].sheet = "master"
    /\ \E f \in Range(ops[k].fields) : f \notin Range(ops[1].fields)

C18_HeaderBeforeData ==
    (ops # <<>> /\ ops[1].op = "read" /\ Len(masterRows) > 0) =>
        /\ \A k \in 2..Len(ops) :
              writesNewColumn(k) =>
                  \E j \in 2..(k - 1) : ops[j] = storageOp("header", "master", <<>>)
        /\ pc = "done" => Range(ensuredHeader) \subseteq Range(rowAt(master, 1))

(***************************************************************************)
(* syncAndNotify of src/api/sync.js (the variant configured through        *)
(* getConfig): dates are JavaScript Date values, read here as calendar     *)
(* dates of a process whose time zone is UTC; the whole master sheet is    *)
(* written back in its own row order.                                      *)
(***************************************************************************)
\* the bounds of the serial numbers parseDate accepts in a text cell
SERIAL_MIN == 40000

SERIAL_MAX == 60000

\* the Date for month m (counted from 1, may exceed 12) and day d (may be 0
\* or exceed the month) of year y: days past the end carry into the
\* following month, day 0 is the last day of the month before
makeDay(y, m, d) ==
    LET yy == y + ((m - 1) \div 12)
        mm == ((m - 1) % 12) + 1
    IN  fromJSDate(ordinal(DateOf(yy, mm, 1)) + d - 1 - EPOCH_ORDINAL)

\* faulty variant: the day that setMonth carried over is kept
add3MonthsUnclamped(date) == makeDay(date.year, date.month + 3, date.day)

\* add3Months(date): setMonth(getMonth() + 3), then setDate(0) when the day
\* of the month changed
add3Months(date) ==
    LET d == makeDay(date.year, date.month + 3, date.day)
    IN  IF d.day # date.day THEN makeDay(d.year, d.month, 0) ELSE d

\* the three numbers of a text of the shape n-n-yyyy or n/n/yyyy, one or two
\* digits each before the year; the empty sequence for any other text
dayMonthYearParts(val) ==
    LET parts == IF \E k \in 1..Len(val) : val[k] = "/" THEN split(val, "/")
                 ELSE split(val, "-")
        shaped == /\ Len(parts) = 3
                  /\ \A k \in 1..3 : parts[k] # EMPTY /\ AllDigits(parts[k])
                  /\ Len(parts[1]) <= 2 /\ Len(parts[2]) <= 2 /\ Len(parts[3]) = 4
    IN  IF shaped THEN <<Num(parts[1]), Num(parts[2]), Num(parts[3])>> ELSE <<>>

\* new Date(val) for a text cell: yyyy-MM-dd is read as that day; a text of
\* numbers month, day, year with - or / is read month first when the first
\* number is a month and the second a day of 1 to 31, days past the end of the
\* month carrying over; any other text gives the invalid date
newDate(val) ==
    IF fromFormat(val, FMT_ISO).isValid THEN fromFormat(val, FMT_ISO)
    ELSE LET n == dayMonthYearParts(val)
         IN  IF n # <<>> /\ n[1] \in 1..12 /\ n[2] \in 1..31
             THEN makeDay(n[3], n[1], n[2])
             ELSE Invalid

\* parseDate(val) for a text cell: a serial number between the bounds, else
\* new Date(val) when that is a date, else the text matched as dd, mm, yyyy
\* with - or /; null is the invalid date
envParseDate(val) ==
    IF val = EMPTY THEN Invalid
    ELSE IF ~isNaN(val) /\ Number(val).n > SERIAL_MIN /\ Number(val).n < SERIAL_MAX
    THEN fromJSDate(Number(val).n - EPOCH_SERIAL)
    ELSE IF newDate(val).isValid THEN newDate(val)
    ELSE LET m == dayMonthYearParts(val)
         IN  IF m = <<>> THEN Invalid
             ELSE LET dd == m[1]
                      mm == m[2]
                      yyyy == m[3]
                  IN  IF dd > 12 THEN makeDay(yyyy, mm, dd)
                      ELSE IF mm > 12 THEN makeDay(yyyy, dd, mm)
                      ELSE makeDay(yyyy, mm, dd)

\* formatDateISO(date)
formatDateISO(date) == IF date.isValid THEN toISODate(date) ELSE EMPTY

\* headers.findIndex(h => variants.includes(h.trim().toLowerCase())),
\* counted from 1; 0 stands for -1
findIndex(headers, variants) ==
    LET hits == {k \in 1..Len(headers) : toLowerCase(trim(headers[k])) \in Range(variants)}
    IN  IF hits = {} THEN 0 ELSE SetMin(hits)

\* headers after the derived labels that are missing were pushed
envHeaders(headers) ==
    LET h1 == IF findIndex(headers, VARIANTS.next) = 0
              THEN Append(headers, NEXT_REMINDER_DATE) ELSE headers
    IN  IF findIndex(headers, VARIANTS.manual) = 0 THEN Append(h1, MANUAL_CONTACT) ELSE h1

\* one pass of the loop over rowsRaw: the padded row with its two derived
\* cells set, and the record pushed to processed
envProcessRow(row, headers) ==
    LET colMap == [f \in DOMAIN VARIANTS |-> findIndex(headers, VARIANTS[f])]
        email == trim(cellAt(row, colMap.email))
        phone == trim(cellAt(row, colMap.phone))
        lastVal == cellAt(row, colMap.last)
        lastDate == envParseDate(lastVal)
        nextIso == IF lastDate.isValid THEN formatDateISO(add3Months(lastDate)) ELSE EMPTY
        missingContact == IF email = EMPTY /\ phone = EMPTY THEN MISSING_CONTACT ELSE EMPTY
        w == IF Len(row) > Len(headers) THEN Len(row) ELSE Len(headers)
    IN  [row |-> [c \in 1..w |-> IF c = colMap.manual THEN missingContact
                                 ELSE IF c = colMap.next THEN nextIso
                                 ELSE cellAt(row, c)],
         name |-> cellAt(row, colMap.name),
         plate |-> cellAt(row, colMap.plate),
         email |-> email,
         phone |-> phone,
         lastVal |-> lastVal,
         nextIso |-> nextIso,
         manual |-> missingContact]

\* the values written to the Reminders sheet: the records sorted by Name
envRemindersValues(records) ==
    LET n == Len(records)
        cmp(j, i) == localeCompare(records[j].name, records[i].name)
        rank(i) == Cardinality({j \in 1..n : cmp(j, i) < 0 \/ (cmp(j, i) = 0 /\ j < i)}) + 1
        order == [r \in 1..n |-> CHOOSE i \in 1..n : rank(i) = r]
    IN  <<remindersHeader>> \o
        [k \in 1..n |->
            LET c == records[order[k]]
            IN  <<c.name, c.plate, c.email, c.phone, c.lastVal, c.nextIso, c.manual, EMPTY>>]

\* Last Service Date cells at the ends of months, in the forms parseDate reads
EnvRowPool ==
    { <<<<"A">>, <<"P">>, <<"x">>, EMPTY, toISODate(DateOf(2024, 1, 31))>>,
      <<<<"b">>, <<"Q">>, EMPTY, EMPTY, slashDMY(DateOf(2023, 11, 30))>>,
      <<<<"c">>, <<"R">>, <<"y">>, <<"1">>, toFormatDMY(DateOf(2024, 11, 30))>>,
      <<<<"B">>, <<"S">>, <<"x">>, EMPTY, serialCell(DateOf(2024, 3, 10))>>,
      <<<<"a">>, <<"T">>, <<"x">>, EMPTY, toISODate(DateOf(2023, 12, 31)), staleNext>>,
      <<<<"a">>, <<"U">>, EMPTY, <<"1">>, serialCell(DateOf(2024, 8, 31))>>,
      <<<<"d">>, <<"V">>, <<"x">>, EMPTY, notADate>>,
      <<<<"d">>, <<"W">>, <<"x">>>> }

EnvTables ==
    {<<>>}
    \cup {sheetValues(<<notifyHeader>> \o rows) :
             rows \in UNION {[1..n -> EnvRowPool] : n \in 0..MaxRows}}
    \cup {sheetValues(<<SubSeq(notifyHeader, 1, 5)>> \o rows) :
             rows \in UNION {[1..n -> {SubSeq(r, 1, IF Len(r) > 5 THEN 5 ELSE Len(r)) :
                                          r \in EnvRowPool}] : n \in 1..MaxRows}}
    \cup SynonymTables

\* the environments syncAndNotify is started in: every required setting set,
\* or one or more of them missing
EnvPool == SUBSET REQUIRED_ENV

InitEnv ==
    /\ master \in EnvTables
    /\ overwriteMaster = FALSE
    /\ reminders = <<>>
    /\ masterSorted = <<>>
    /\ cellText = EMPTY
    /\ normalDate = Invalid
    /\ nextDate = Invalid
    /\ env \in EnvPool
    /\ statusLog = <<>>
    /\ clock = Day0
    /\ ticks = 0
    /\ runNo = 0
    /\ pc = "idle"
    /\ masterRows = <<>>
    /\ ensuredHeader = <<>>
    /\ processedCustomers = <<>>
    /\ sortedCustomers = <<>>
    /\ customers = <<>>
    /\ today = Day0
    /\ idx = 0
    /\ emailType = null
    /\ sent = 0
    /\ failed = 0
    /\ failures = <<>>
    /\ skipped = noSkips
    /\ decisions = <<>>
    /\ mail = <<>>
    /\ returned = <<>>
    /\ ops = <<>>

\* the variables this variant leaves alone: it sends nothing and has no loop state
envIdle == <<masterSorted, overwriteMaster, today, idx, mail, mainSyncOnly, dateVars, env>>

\* step 1: values.get resolves; an empty sheet is read as one empty header
\* row; the columns are located and the missing derived labels pushed
EnvRead ==
    /\ pc \in {"idle", "done", "error"}
    /\ runNo < MaxRuns
    /\ getConfig(env) = "ok"
    /\ runNo' = runNo + 1
    /\ ops' = <<storageOp("read", "master", readHeaders(master))>>
    /\ masterRows' = IF master = <<>> THEN <<>> ELSE Tail(master)
    /\ ensuredHeader' = envHeaders(readHeaders(master))
    /\ pc' = IF envHeaders(readHeaders(master)) # readHeaders(master)
             THEN "updateHeader" ELSE "process"
    /\ UNCHANGED <<sheetVars, clock, ticks, processedCustomers, returned, envIdle>>

\* step 1: values.get rejects
EnvReadFail ==
    /\ pc \in {"idle", "done", "error"}
    /\ runNo < MaxRuns
    /\ getConfig(env) = "ok"
    /\ runNo' = runNo + 1
    /\ ops' = <<storageOp("readFailed", "master", <<>>)>>
    /\ pc' = "error"
    /\ UNCHANGED <<sheetVars, clock, ticks, fetchVars, processedCustomers, returned, envIdle>>

\* values.update of row 1 with the extended headers
EnvUpdateHeaders ==
    /\ pc = "updateHeader"
    /\ master' = valuesUpdate(master, 1, <<ensuredHeader>>)
    /\ ops' = Append(ops, storageOp("header", "master", <<>>))
    /\ pc' = "process"
    /\ UNCHANGED <<reminders, statusLog, clock, ticks, runNo, fetchVars, processedCustomers,
                   returned, envIdle>>

\* the loop over rowsRaw, then values.update of the master sheet with
\* [headers, ...rowsRaw]
EnvWriteMaster ==
    /\ pc = "process"
    /\ LET done == [k \in 1..Len(masterRows) |-> envProcessRow(masterRows[k], ensuredHeader)]
       IN  /\ processedCustomers' = done
           /\ master' = valuesUpdate(master, 1,
                            <<ensuredHeader>> \o [k \in 1..Len(done) |-> done[k].row])
    /\ ops' = Append(ops, storageOp("update", "master", ensuredHeader))
    /\ pc' = "writeReminders"
    /\ UNCHANGED <<reminders, statusLog, clock, ticks, runNo, fetchVars, returned, envIdle>>

\* values.update of the Reminders sheet with the sorted records
EnvWriteReminders ==
    /\ pc = "writeReminders"
    /\ reminders' = valuesUpdate(reminders, 1, envRemindersValues(processedCustomers))
    /\ ops' = Append(ops, storageOp("overwrite", "reminders", <<>>))
    /\ pc' = "log"
    /\ UNCHANGED <<master, statusLog, clock, ticks, runNo, fetchVars, processedCustomers,
                   returned, envIdle>>

\* values.append to the status log, then the summary is returned
EnvAppendLog ==
    /\ pc = "log"
    /\ statusLog' = valuesAppend(statusLog, [timestamp |-> toISODate(clock),
                                             processed |-> Len(processedCustomers)])
    /\ returned' = Append(returned, [run |-> runNo, ok |-> TRUE,
                                     processed |-> Len(processedCustomers)])
    /\ ops' = Append(ops, storageOp("append", "statusLog", <<>>))
    /\ pc' = "done"
    /\ UNCHANGED <<master, reminders, clock, ticks, runNo, fetchVars, processedCustomers,
                   envIdle>>

\* getConfig throws: syncAndNotify rejects before the sheets client is made
EnvGetConfigFail ==
    /\ pc \in {"idle", "done", "error"}
    /\ runNo < MaxRuns
    /\ getConfig(env) # "ok"
    /\ runNo' = runNo + 1
    /\ ops' = <<>>
    /\ pc' = "error"
    /\ UNCHANGED <<sheetVars, clock, ticks, fetchVars, processedCustomers, returned, envIdle>>

NextEnv ==
    \/ Tick
    \/ EnvGetConfigFail
    \/ EnvRead
    \/ EnvReadFail
    \/ EnvUpdateHeaders
    \/ EnvWriteMaster
    \/ EnvWriteReminders
    \/ EnvAppendLog

SpecEnv == InitEnv /\ [][NextEnv]_vars

(***************************************************************************)
(* C13: the due date is the last-service date moved on by exactly three    *)
(* calendar months: the same day of the month when the target month has    *)
(* it, the last day of the target month otherwise, never a day of the      *)
(* month after (31 Jan gives 30 Apr, 30 Nov gives 28 or 29 Feb).  Stated   *)
(* for the value add3Months stores in Next Reminder Date and for the       *)
(* luxon computation plus({ months: 3 }) on the same date.                 *)
(***************************************************************************)
\* next is three calendar months after last, clamped to the end of its month
threeMonthsOn(last, next) ==
    /\ next.isValid
    /\ (12 * next.year + next.month) - (12 * last.year + last.month) = 3
    /\ \/ next.day = last.day
       \/ /\ last.day > daysInMonth(next.year, next.month)
          /\ next.day = daysInMonth(next.year, next.month)

C13_ThreeCalendarMonths ==
    \A p \in 1..Len(processedCustomers) :
        LET last == envParseDate(processedCustomers[p].lastVal)
        IN  last.isValid =>
                /\ threeMonthsOn(last, fromFormat(processedCustomers[p].nextIso, FMT_ISO))
                /\ threeMonthsOn(last, plusMonths(last, 3))

\* a run has computed 30 Apr from 31 Jan and a day of February from 30 Nov
C13_Witness ==
    /\ pc = "done"
    /\ \E p, q \in 1..Len(processedCustomers) :
          /\ envParseDate(processedCustomers[p].lastVal) = DateOf(2024, 1, 31)
          /\ processedCustomers[p].nextIso = toISODate(DateOf(2024, 4, 30))
          /\ envParseDate(processedCustomers[q].lastVal).month = 11
          /\ envParseDate(processedCustomers[q].lastVal).day = 30
          /\ fromFormat(processedCustomers[q].nextIso, FMT_ISO).month = 2

(***************************************************************************)
(* C21: every complete run appends exactly one row to the status log,      *)
(* whatever the number of records that were due, and that row holds the    *)
(* timestamp, the number of records processed, the number of sends that    *)
(* succeeded, the number that failed and the failure details.              *)
(***************************************************************************)
\* the appends to the status log made by the current run
logAppends == {k \in 1..Len(ops) : ops[k] = storageOp("append", "statusLog", <<>>)}

C21_OneAuditRowPerRun ==
    pc = "done" =>
        /\ Cardinality(logAppends) = 1
        /\ {"timestamp", "processed", "sent", "failed", "failures"}
               \subseteq DOMAIN statusLog[Len(statusLog)]
        /\ statusLog[Len(statusLog)].processed = Len(processedCustomers)

(***************************************************************************)
(* C22: the summary returned by a complete run of mainSync agrees with     *)
(* what the run did: processed is the number of data rows fetched,         *)
(* remindersSent the number of calls of sendEmail that resolved,           *)
(* remindersFailed the number that threw, failures has one entry per       *)
(* failed call, and sent plus failed never exceeds processed.              *)
(***************************************************************************)
\* the calls of sendEmail of the current run that ended with result r
callsEnded(r) == {m \in 1..Len(mail) : mail[m].run = runNo /\ mail[m].result = r}

C22_SummaryConsistent ==
    pc = "done" =>
        LET summary == returned[Len(returned)]
        IN  /\ summary.run = runNo
            /\ summary.processed = Len(masterRows)
            /\ summary.remindersSent = Cardinality(callsEnded("ok"))
            /\ summary.remindersFailed = Cardinality(callsEnded("failed"))
            /\ Len(summary.failures) = summary.remindersFailed
            /\ summary.remindersSent + summary.remindersFailed <= summary.processed

\* a complete run in which one call resolved and another threw
C22_Witness ==
    /\ pc = "done"
    /\ returned[Len(returned)].remindersSent = 1
    /\ returned[Len(returned)].remindersFailed = 1
    /\ Cardinality(callsEnded("ok")) = 1
    /\ Cardinality(callsEnded("failed")) = 1

(***************************************************************************)
(* Two invocations of mainSync (src/api/sync.js) over the same spreadsheet *)
(* at the same time.  Each invocation has its own locals, so the variables *)
(* that hold locals are functions of the invocation; the sheets and the    *)
(* mail transport are shared.  mainSync takes no lock, so the awaited      *)
(* calls of the two invocations interleave freely.                         *)
(***************************************************************************)
Runs == {1, 2}

\* one entry of ops when invocations overlap: who made the call
runOp(r, kind, sheet) == [run |-> r, op |-> kind, sheet |-> sheet]

\* the master sheets of the overlapping invocations: every record has its own key
OverlapRowPool ==
    { fullRow(<<"A">>, <<"P">>, <<"x">>, EMPTY, visitDue, EMPTY, EMPTY, EMPTY, EMPTY),
      fullRow(<<"c">>, <<"U">>, <<"x">>, EMPTY, visitIn1, EMPTY, EMPTY, EMPTY, EMPTY),
      fullRow(<<"d">>, <<"Z">>, <<"x">>, EMPTY, EMPTY, staleNext, EMPTY, EMPTY, EMPTY) }

OverlapTables ==
    {<<>>, sheetValues(<<baseHeader, <<<<"A">>, <<"P">>, <<"x">>, EMPTY, visitDue>>>>)}
    \cup {sheetValues(<<REQUIRED_COLUMNS>> \o rows) :
             rows \in {f \in UNION {[1..n -> OverlapRowPool] : n \in 0..MaxRows} :
                          \A i, j \in DOMAIN f : i # j => f[i] # f[j]}}

InitOverlap ==
    /\ master \in OverlapTables
    /\ reminders = <<>>
    /\ statusLog = <<>>
    /\ clock = Day0
    /\ ticks = 0
    /\ runNo = 0
    /\ pc = [r \in Runs |-> "idle"]
    /\ masterRows = [r \in Runs |-> <<>>]
    /\ ensuredHeader = [r \in Runs |-> <<>>]
    /\ processedCustomers = [r \in Runs |-> <<>>]
    /\ sortedCustomers = [r \in Runs |-> <<>>]
    /\ customers = [r \in Runs |-> <<>>]
    /\ today = [r \in Runs |-> Day0]
    /\ idx = [r \in Runs |-> 0]
    /\ emailType = [r \in Runs |-> null]
    /\ sent = [r \in Runs |-> 0]
    /\ failed = [r \in Runs |-> 0]
    /\ failures = [r \in Runs |-> <<>>]
    /\ skipped = noSkips
    /\ decisions = <<>>
    /\ mail = <<>>
    /\ returned = <<>>
    /\ ops = <<>>
    /\ masterSorted = <<>>
    /\ cellText = EMPTY
    /\ normalDate = Invalid
    /\ nextDate = Invalid
    /\ env = REQUIRED_ENV
    /\ overwriteMaster = FALSE

\* what no invocation of mainSync touches here
overlapIdle == <<clock, ticks, runNo, skipped, decisions, masterSorted, overwriteMaster,
                 dateVars, env>>

\* step 2 of invocation r: fetchSheetRows resolves, then ensureColumns
OverlapFetch(r) ==
    /\ pc[r] = "idle"
    /\ masterRows' = [masterRows EXCEPT ![r] = IF master = <<>> THEN <<>> ELSE Tail(master)]
    /\ ensuredHeader' = [ensuredHeader EXCEPT ![r] = ensureColumns(rowAt(master, 1),
                                                                   REQUIRED_COLUMNS)]
    /\ pc' = [pc EXCEPT ![r] = IF headerChanged(rowAt(master, 1), REQUIRED_COLUMNS)
                               THEN "updateHeader" ELSE "process"]
    /\ ops' = Append(ops, runOp(r, "read", "master"))
    /\ UNCHANGED <<sheetVars, processVars, customers, today, idx, emailType, sent, failed,
                   failures, mail, returned, overlapIdle>>

\* step 2 of invocation r: fetchSheetRows rejects and mainSync rethrows
OverlapFetchFail(r) ==
    /\ pc[r] = "idle"
    /\ pc' = [pc EXCEPT ![r] = "error"]
    /\ ops' = Append(ops, runOp(r, "readFailed", "master"))
    /\ UNCHANGED <<sheetVars, fetchVars, processVars, customers, today, idx, emailType, sent,
                   failed, failures, mail, returned, overlapIdle>>

\* step 2 of invocation r: updateSheetHeader
OverlapUpdateHeader(r) ==
    /\ pc[r] = "updateHeader"
    /\ master' = valuesUpdate(master, 1, <<ensuredHeader[r]>>)
    /\ pc' = [pc EXCEPT ![r] = "process"]
    /\ ops' = Append(ops, runOp(r, "header", "master"))
    /\ UNCHANGED <<reminders, statusLog, fetchVars, processVars, customers, today, idx,
                   emailType, sent, failed, failures, mail, returned, overlapIdle>>

\* steps 3 to 5 of invocation r: processCustomers, the sort, writeProcessedData
OverlapWriteReminders(r) ==
    /\ pc[r] = "process"
    /\ LET objs == processCustomers(masterRows[r], ensuredHeader[r])
       IN  /\ processedCustomers' = [processedCustomers EXCEPT ![r] = objs]
           /\ sortedCustomers' = [sortedCustomers EXCEPT ![r] = sortByName(objs)]
           /\ reminders' = valuesUpdate(reminders, 1,
                               processedValues(objs, sortByName(objs), ensuredHeader[r]))
    /\ pc' = [pc EXCEPT ![r] = "sendReminders"]
    /\ ops' = Append(ops, runOp(r, "overwrite", "reminders"))
    /\ UNCHANGED <<master, statusLog, fetchVars, customers, today, idx, emailType, sent,
                   failed, failures, mail, returned, overlapIdle>>

\* step 6 of invocation r: sendReminders is entered
OverlapBeginSendReminders(r) ==
    /\ pc[r] = "sendReminders"
    /\ customers' = [customers EXCEPT ![r] =
                        remindersArgument(processedCustomers[r], sortedCustomers[r])]
    /\ today' = [today EXCEPT ![r] = clock]
    /\ idx' = [idx EXCEPT ![r] = 1]
    /\ emailType' = [emailType EXCEPT ![r] = null]
    /\ sent' = [sent EXCEPT ![r] = 0]
    /\ failed' = [failed EXCEPT ![r] = 0]
    /\ failures' = [failures EXCEPT ![r] = <<>>]
    /\ pc' = [pc EXCEPT ![r] = "loop"]
    /\ UNCHANGED <<sheetVars, fetchVars, processVars, mail, returned, ops, overlapIdle>>

\* one pass of the loop of invocation r up to continue or to the call of sendEmail
OverlapExamine(r) ==
    /\ pc[r] = "loop"
    /\ idx[r] \in 1..Len(customers[r])
    /\ LET customer == processedCustomers[r][customers[r][idx[r]]]
           v        == verdict(customer, today[r])
       IN  IF v.skip = ""
           THEN /\ emailType' = [emailType EXCEPT ![r] = v.type]
                /\ mail' = Append(mail, [run |-> r, pos |-> customers[r][idx[r]],
                                         to |-> customer[COL_EMAIL], type |-> v.type,
                                         todayStr |-> toISODate(today[r]),
                                         result |-> "pending"])
                /\ pc' = [pc EXCEPT ![r] = "sending"]
                /\ ops' = Append(ops, runOp(r, "send", "mail"))
                /\ UNCHANGED idx
           ELSE /\ idx' = [idx EXCEPT ![r] = @ + 1]
                /\ UNCHANGED <<emailType, mail, pc, ops>>
    /\ UNCHANGED <<sheetVars, fetchVars, processVars, customers, today, sent, failed, failures,
                   returned, overlapIdle>>

\* the call of sendEmail that invocation r is waiting for
pendingCall(r) == SetMax({m \in 1..Len(mail) : mail[m].run = r})

\* sendEmail of invocation r resolves
OverlapSendOk(r) ==
    /\ pc[r] = "sending"
    /\ sent' = [sent EXCEPT ![r] = @ + 1]
    /\ processedCustomers' = [processedCustomers EXCEPT ![r][customers[r][idx[r]]] =
                                 markSent(@, toISODate(today[r]), emailType[r])]
    /\ mail' = [mail EXCEPT ![pendingCall(r)].result = "ok"]
    /\ idx' = [idx EXCEPT ![r] = @ + 1]
    /\ pc' = [pc EXCEPT ![r] = "loop"]
    /\ UNCHANGED <<sheetVars, fetchVars, sortedCustomers, customers, today, emailType, failed,
                   failures, returned, ops, overlapIdle>>

\* sendEmail of invocation r rejects
OverlapSendFail(r) ==
    /\ pc[r] = "sending"
    /\ failed' = [failed EXCEPT ![r] = @ + 1]
    /\ failures' = [failures EXCEPT ![r] =
                       Append(@, <<processedCustomers[r][customers[r][idx[r]]][COL_NAME],
                                   processedCustomers[r][customers[r][idx[r]]][COL_EMAIL]>>)]
    /\ processedCustomers' = [processedCustomers EXCEPT ![r][customers[r][idx[r]]] =
                                 markFailed(@, toISODate(today[r]), emailType[r])]
    /\ mail' = [mail EXCEPT ![pendingCall(r)].result = "failed"]
    /\ idx' = [idx EXCEPT ![r] = @ + 1]
    /\ pc' = [pc EXCEPT ![r] = afterFailure]
    /\ UNCHANGED <<sheetVars, fetchVars, sortedCustomers, customers, today, emailType, sent,
                   returned, ops, overlapIdle>>

\* step 7 of invocation r: updateReminderFieldsInMaster
OverlapUpdateMaster(r) ==
    /\ pc[r] = "loop"
    /\ idx[r] > Len(customers[r])
    /\ master' = updateReminderFieldsInMaster(master, processedCustomers[r], customers[r])
    /\ pc' = [pc EXCEPT ![r] = "log"]
    /\ ops' = Append(ops, runOp(r, "update", "master"))
    /\ UNCHANGED <<reminders, statusLog, fetchVars, processVars, customers, today, idx,
                   emailType, sent, failed, failures, mail, returned, overlapIdle>>

\* steps 8 and 9 of invocation r: appendSheetRow, then the summary is returned
OverlapAppendLog(r) ==
    /\ pc[r] = "log"
    /\ statusLog' = valuesAppend(statusLog,
                        [timestamp |-> toISODate(clock),
                         processed |-> Len(processedCustomers[r]),
                         sent |-> sent[r], failed |-> failed[r], failures |-> failures[r]])
    /\ returned' = Append(returned, summaryOf(r, processedCustomers[r], sent[r], failed[r],
                                              failures[r]))
    /\ pc' = [pc EXCEPT ![r] = "done"]
    /\ ops' = Append(ops, runOp(r, "append", "statusLog"))
    /\ UNCHANGED <<master, reminders, fetchVars, processVars, customers, today, idx, emailType,
                   sent, failed, failures, mail, overlapIdle>>

NextOverlap ==
    \/ \E r \in Runs : OverlapFetch(r)
    \/ \E r \in Runs : OverlapFetchFail(r)
    \/ \E r \in Runs : OverlapUpdateHeader(r)
    \/ \E r \in Runs : OverlapWriteReminders(r)
    \/ \E r \in Runs : OverlapBeginSendReminders(r)
    \/ \E r \in Runs : OverlapExamine(r)
    \/ \E r \in Runs : OverlapSendOk(r)
    \/ \E r \in Runs : OverlapSendFail(r)
    \/ \E r \in Runs : OverlapUpdateMaster(r)
    \/ \E r \in Runs : OverlapAppendLog(r)

SpecOverlap == InitOverlap /\ [][NextOverlap]_vars

(***************************************************************************)
(* C23: mainSync has no mutual exclusion.  Two invocations that overlap    *)
(* can both pass the guard "already sent this type today" for the same     *)
(* record and both send: a state where one record was sent the same type   *)
(* twice on the same day is reachable, and among records with a key of     *)
(* their own it is reached only by two invocations of which the second     *)
(* fetched the master sheet before the first had written its stamps back.  *)
(***************************************************************************)
\* calls m and n of sendEmail both resolved, for the same record, type and day
sameReminderTwice(m, n) ==
    /\ m < n
    /\ mail[m].pos = mail[n].pos
    /\ mail[m].type = mail[n].type
    /\ mail[m].todayStr = mail[n].todayStr
    /\ mail[m].result = "ok"
    /\ mail[n].result = "ok"

\* invocation a had written the master sheet back when invocation b fetched it
wroteBackBeforeFetch(a, b) ==
    \E i, j \in 1..Len(ops) :
        /\ i < j
        /\ ops[i] = runOp(a, "update", "master")
        /\ ops[j] = runOp(b, "read", "master")

C23_DoubleSendOnlyByOverlap ==
    \A m, n \in 1..Len(mail) :
        sameReminderTwice(m, n) =>
            /\ mail[m].run # mail[n].run
            /\ ~wroteBackBeforeFetch(mail[m].run, mail[n].run)

\* both invocations have finished and one record got the same type twice that day
C23_Witness ==
    /\ \A r \in Runs : pc[r] = "done"
    /\ \E m, n \in 1..Len(mail) : sameReminderTwice(m, n) /\ mail[m].run # mail[n].run

(***************************************************************************)
(* C24: the Manual Contact flag of a record is MISSING CONTACT exactly     *)
(* when both its email and its phone cell are empty, whatever its other    *)
(* cells hold; with at least one of the two present the flag is empty.     *)
(***************************************************************************)
\* the cell of row p under label h as fetched is empty
fetchedEmpty(p, h) == trim(fetchedCell(p, h)) = EMPTY

C24_MissingContactIff ==
    processed =>
        \A p \in 1..Len(masterRows) :
            customerAt(p)[COL_MANUAL] =
                IF fetchedEmpty(p, COL_EMAIL) /\ fetchedEmpty(p, COL_PHONE)
                THEN MISSING_CONTACT ELSE EMPTY

\* one record without email and phone is flagged, one with just one of the
\* two is not; the records differ in their other cells
C24_Witness ==
    /\ processed
    /\ \E p, q \in 1..Len(masterRows) :
          /\ fetchedEmpty(p, COL_EMAIL) /\ fetchedEmpty(p, COL_PHONE)
          /\ customerAt(p)[COL_MANUAL] = MISSING_CONTACT
          /\ (fetchedEmpty(q, COL_EMAIL) # fetchedEmpty(q, COL_PHONE))
          /\ customerAt(q)[COL_MANUAL] = EMPTY
          /\ fetchedCell(p, COL_PLATE) # fetchedCell(q, COL_PLATE)

(***************************************************************************)
(* C25: a field is resolved to a column without regard to letter case and  *)
(* by the order of its synonym list: a header equal to a synonym up to     *)
(* letter case counts as that field, so no second column is appended for   *)
(* it, and among several headers that match, the one that matches the      *)
(* earliest synonym of the list is taken.  Stated for the last-service     *)
(* column each record was read from and for the number of labels appended. *)
(***************************************************************************)
\* the header row the current run read
headerRead == ops[1].fields

\* the columns of the header read that are the v-th synonym of field f up to case
columnsNamed(f, v) ==
    {k \in 1..Len(headerRead) : toLowerCase(trim(headerRead[k])) = VARIANTS[f][v]}

\* the column of field f by the order of its synonyms; 0 when none matches
columnByPriority(f) ==
    LET named == {v \in 1..Len(VARIANTS[f]) : columnsNamed(f, v) # {}}
    IN  IF named = {} THEN 0 ELSE SetMin(columnsNamed(f, SetMin(named)))

C25_SynonymPriority ==
    (ops # <<>> /\ ops[1].op = "read" /\ pc \in {"writeReminders", "log", "done"}) =>
        /\ \A p \in 1..Len(processedCustomers) :
              processedCustomers[p].lastVal = cellAt(masterRows[p], columnByPriority("last"))
        /\ Len(ensuredHeader) = Len(headerRead)
              + Cardinality({f \in {"next", "manual"} : columnByPriority(f) = 0})

(***************************************************************************)
(* C26: appending the label of a missing derived column moves nothing.     *)
(* Every label of the header read keeps its position in the header the run *)
(* works with, every field resolved in the header read is resolved to the  *)
(* same column afterwards, a derived field that was missing gets a column  *)
(* beyond the header read, and two appended fields get different columns.  *)
(***************************************************************************)
\* the labels of a header, trimmed and in lower case
lowerLabels(header) == [k \in 1..Len(header) |-> toLowerCase(trim(header[k]))]

\* the column of field f among lower-case labels, by the order of its
\* synonyms; 0 when none
columnAmong(labels, f) ==
    LET named == {v \in 1..Len(VARIANTS[f]) : \E k \in 1..Len(labels) : labels[k] = VARIANTS[f][v]}
    IN  IF named = {} THEN 0
        ELSE SetMin({k \in 1..Len(labels) : labels[k] = VARIANTS[f][SetMin(named)]})

C26_AppendKeepsColumns ==
    (ops # <<>> /\ ops[1].op = "read" /\ pc \notin {"idle", "error"}) =>
        LET before == lowerLabels(headerRead)
            after  == lowerLabels(ensuredHeader)
        IN  /\ Len(ensuredHeader) >= Len(headerRead)
            /\ SubSeq(ensuredHeader, 1, Len(headerRead)) = headerRead
            /\ \A f \in DOMAIN VARIANTS :
                  IF columnAmong(before, f) # 0
                  THEN columnAmong(after, f) = columnAmong(before, f)
                  ELSE f \in {"next", "manual"} => columnAmong(after, f) > Len(headerRead)
            /\ columnAmong(after, "next") # columnAmong(after, "manual")

\* a run that read a header without either derived column and appended both
C26_Witness ==
    /\ ops # <<>> /\ ops[1].op = "read" /\ pc = "done"
    /\ headerRead # <<>>
    /\ columnAmong(lowerLabels(headerRead), "next") = 0
    /\ columnAmong(lowerLabels(headerRead), "manual") = 0
    /\ Len(ensuredHeader) = Len(headerRead) + 2

(***************************************************************************)
(* C27: processCustomers yields exactly one record per data row, in row    *)
(* order, and sorting for the Reminders sheet leaves that sequence as it   *)
(* was: the record at position p carries the name, registration number and *)
(* Last Visit of row p, the sorted sequence is a rearrangement of the same *)
(* positions, and the list the send loop walks is the row-order one.       *)
(***************************************************************************)
\* the positions 1..n in increasing order
rowOrder(n) == [k \in 1..n |-> k]

C27_OneRecordPerRowInOrder ==
    processed =>
        /\ Len(processedCustomers) = Len(masterRows)
        /\ \A p \in 1..Len(masterRows) :
              \A h \in {COL_NAME, COL_PLATE, COL_LAST_VISIT} :
                  customerAt(p)[h] = trim(fetchedCell(p, h))
        /\ Len(sortedCustomers) = Len(masterRows)
        /\ Range(sortedCustomers) = 1..Len(masterRows)
        /\ pc # "sendReminders" => customers = rowOrder(Len(masterRows))

\* a finished run over two rows whose name order is the reverse of their row order
C27_Witness ==
    /\ pc = "done"
    /\ Len(masterRows) = 2
    /\ sortedCustomers = <<2, 1>>
    /\ customerAt(1)[COL_NAME] # customerAt(2)[COL_NAME]

(***************************************************************************)
(* C28: the sequence written to the Reminders sheet is the records of the  *)
(* run rearranged by name without regard to letter case: it is a           *)
(* permutation of the row positions, names never decrease along it when    *)
(* compared ignoring case, records whose names are equal ignoring case     *)
(* keep their row order, and sorting it once more changes nothing.         *)
(***************************************************************************)
\* the comparison of two names without regard to letter case
compareIgnoringCase(a, b) == localeCompare(toLowerCase(a), toLowerCase(b))

\* the name of the record at place k of the sorted sequence
sortedName(k) == customerAt(sortedCustomers[k])[COL_NAME]

C28_SortedByNameStable ==
    processed =>
        /\ Len(sortedCustomers) = Len(processedCustomers)
        /\ Range(sortedCustomers) = 1..Len(processedCustomers)
        /\ \A i, j \in 1..Len(sortedCustomers) :
              i < j => /\ compareIgnoringCase(sortedName(i), sortedName(j)) <= 0
                       /\ compareIgnoringCase(sortedName(i), sortedName(j)) = 0
                             => sortedCustomers[i] < sortedCustomers[j]
        /\ sortByName([k \in 1..Len(sortedCustomers) |-> customerAt(sortedCustomers[k])])
              = rowOrder(Len(sortedCustomers))

(***************************************************************************)
(* C29: a data row with fewer cells than the header is handled as if the   *)
(* missing trailing cells were empty.  The run does not fail on it, its    *)
(* record is the record of the same row with the empty cells written out,  *)
(* the fields under the missing columns that the run does not set are      *)
(* empty, and the row written back has the width of the header and         *)
(* carries the fields of the record.                                       *)
(***************************************************************************)
\* row p of the current run has fewer cells than the header
shortRow(p) == Len(masterRows[p]) < Len(ensuredHeader)

\* the row with its missing trailing cells written out as empty cells
paddedRow(row, width) == [c \in 1..width |-> cellAt(row, c)]

\* the columns a run copies from the sheet and never sets
copiedColumns == {COL_NAME, COL_PLATE, COL_EMAIL, COL_PHONE, COL_LAST_VISIT, COL_STATUS}

\* no other row of the run has the name and registration number of row p
soleKey(p) == \A q \in 1..Len(processedCustomers) : ~sharedKey(p, q)

C29_ShortRowAsPadded ==
    processed =>
        \A p \in 1..Len(masterRows) :
            shortRow(p) =>
                /\ processCustomer(masterRows[p], ensuredHeader)
                      = processCustomer(paddedRow(masterRows[p], Len(ensuredHeader)),
                                        ensuredHeader)
                /\ \A c \in (Len(masterRows[p]) + 1)..Len(ensuredHeader) :
                      ensuredHeader[c] \in copiedColumns
                          => customerAt(p)[ensuredHeader[c]] = EMPTY
                /\ pc \in {"loop", "sending", "log", "done"} =>
                      Len(updatedRow(masterRows[p], ensuredHeader, processedCustomers,
                                     customers, fieldsToUpdate)) = Len(ensuredHeader)
                /\ (persisted /\ soleKey(p)) =>
                      \A f \in {COL_NEXT, COL_MANUAL, COL_LAST_SENT, COL_TYPE} :
                          storedCell(p, f) = customerAt(p)[f]

\* a finished run wrote the stamp of a send into a row that had no cell there
C29_Witness ==
    /\ pc = "done"
    /\ \E p \in 1..Len(masterRows) :
          /\ shortRow(p)
          /\ Len(masterRows[p]) < columnIndex(ensuredHeader, COL_LAST_SENT)
          /\ soleKey(p)
          /\ storedCell(p, COL_LAST_SENT) # EMPTY

(***************************************************************************)
(* The two normalizers on their own: isoDateFromAny of syncAndNotify       *)
(* (src/unnamed/part_003) and parseDate of mainSync (src/api/sync.js),     *)
(* each applied to the text of one date cell.  The cells are the dates of  *)
(* DatePool written in each of the four layouts the normalizers list.      *)
(***************************************************************************)
\* DateTime.toFormat with a layout of day, month and year tokens
toFormat(dt, fmt) ==
    LET part(k) == IF fmt.toks[k] = "yyyy" THEN Pad(dt.year, 4)
                   ELSE IF fmt.toks[k] = "MM" THEN Pad(dt.month, 2)
                   ELSE Pad(dt.day, 2)
    IN  part(1) \o <<fmt.sep>> \o part(2) \o <<fmt.sep>> \o part(3)

\* yyyy-MM-dd, dd-MM-yyyy, dd/MM/yyyy and MM/dd/yyyy
supportedFormats == {FMT_ISO, FMT_DMY_HY, FMT_DMY_SL, FMT_MDY_SL}

DateYears == {2023, 2024}

DateDays == {1, 2, 12, 13, 28}

\* days up to and above 12, the day equal to the month, and every month end
DatePool ==
    {DateOf(y, m, d) : y \in DateYears, m \in 1..12, d \in DateDays}
    \cup {DateOf(y, m, daysInMonth(y, m)) : y \in DateYears, m \in 1..12}

DateCells == {toFormat(d, f) : d \in DatePool, f \in supportedFormats}

InitDates ==
    /\ master = <<>>
    /\ reminders = <<>>
    /\ statusLog = <<>>
    /\ clock = Day0
    /\ ticks = 0
    /\ runNo = 0
    /\ pc = "idle"
    /\ masterRows = <<>>
    /\ ensuredHeader = <<>>
    /\ processedCustomers = <<>>
    /\ sortedCustomers = <<>>
    /\ customers = <<>>
    /\ today = Day0
    /\ idx = 0
    /\ emailType = null
    /\ sent = 0
    /\ failed = 0
    /\ failures = <<>>
    /\ skipped = noSkips
    /\ decisions = <<>>
    /\ mail = <<>>
    /\ returned = <<>>
    /\ ops = <<>>
    /\ masterSorted = <<>>
    /\ overwriteMaster = FALSE
    /\ cellText \in DateCells
    /\ normalDate = Invalid
    /\ nextDate = Invalid
    /\ env = REQUIRED_ENV

datesIdle == <<sheetVars, clock, ticks, runNo, fetchVars, processVars, loopVars, mail,
               returned, ops, notifyVars, cellText, env>>

\* isoDateFromAny(value) returns
DatesIsoDateFromAny ==
    /\ pc = "idle"
    /\ normalDate' = isoDateFromAny(cellText)
    /\ pc' = "isoDateFromAny"
    /\ UNCHANGED <<datesIdle, nextDate>>

\* parseDate(str) returns
DatesParseDate ==
    /\ pc = "idle"
    /\ normalDate' = parseDate(cellText)
    /\ pc' = "parseDate"
    /\ UNCHANGED <<datesIdle, nextDate>>

\* parseDate(val) of the syncAndNotify that reads its settings from the
\* environment returns
DatesEnvParseDate ==
    /\ pc = "idle"
    /\ normalDate' = envParseDate(cellText)
    /\ pc' = "envParseDate"
    /\ UNCHANGED <<datesIdle, nextDate>>

\* processCustomers of mainSync: lastVisit.plus({ months: 3 }) when parseDate
\* returned a date
DatesPlusMonths ==
    /\ pc = "parseDate"
    /\ normalDate.isValid
    /\ nextDate' = plusMonths(normalDate, 3)
    /\ pc' = "plusMonths"
    /\ UNCHANGED <<datesIdle, normalDate>>

\* the loop over rowsRaw: add3Months(lastDate) when parseDate returned a date
DatesAdd3Months ==
    /\ pc = "envParseDate"
    /\ normalDate.isValid
    /\ nextDate' = add3Months(normalDate)
    /\ pc' = "add3Months"
    /\ UNCHANGED <<datesIdle, normalDate>>

NextDates ==
    \/ DatesIsoDateFromAny
    \/ DatesParseDate
    \/ DatesEnvParseDate
    \/ DatesPlusMonths
    \/ DatesAdd3Months

SpecDates == InitDates /\ [][NextDates]_vars

(***************************************************************************)
(* C30: writing a date and normalizing it gives the date back.  For every  *)
(* calendar date d and each of the four layouts (yyyy-MM-dd, dd-MM-yyyy,   *)
(* dd/MM/yyyy, MM/dd/yyyy), the normalizer applied to d written in that    *)
(* layout returns d.                                                       *)
(***************************************************************************)
C30_DateRoundTrip ==
    pc \in {"isoDateFromAny", "parseDate"} =>
        \A d \in DatePool : \A f \in supportedFormats :
            cellText = toFormat(d, f) => normalDate = d

(***************************************************************************)
(* C31: a date text a/b/yyyy in which a and b are both at most 12 is read  *)
(* day first by every normalizer: the result is day a of month b.          *)
(***************************************************************************)
\* the current cell is a/b/yyyy with a and b at most 12, two digits each
ambiguousCell(a, b, y) == cellText = toFormat(DateOf(y, b, a), FMT_DMY_SL)

C31_AmbiguousReadDayFirst ==
    pc \in {"isoDateFromAny", "parseDate", "envParseDate"} =>
        \A a, b \in 1..12 : \A y \in DateYears :
            ambiguousCell(a, b, y) => normalDate = DateOf(y, b, a)

(***************************************************************************)
(* C32: the due date lies 89 to 92 days after the last-service date when   *)
(* the day of the month exists three months later, and a last service of   *)
(* 2024-01-31 is due on 2024-04-30.  Stated for the due date of mainSync   *)
(* (plus three months) and of syncAndNotify (add3Months).                  *)
(***************************************************************************)
\* the day of the month of dt exists in the month three months later
dayExistsThreeMonthsOn(dt) ==
    LET m0 == dt.month + 3
    IN  dt.day <= daysInMonth(dt.year + ((m0 - 1) \div 12), ((m0 - 1) % 12) + 1)

C32_DueAfter89To92Days ==
    pc \in {"plusMonths", "add3Months"} =>
        /\ dayExistsThreeMonthsOn(normalDate) => diffDays(nextDate, normalDate) \in 89..92
        /\ normalDate = DateOf(2024, 1, 31) => nextDate = DateOf(2024, 4, 30)

\* the last service of 31 January 2024 has been given its due date by mainSync
C32_Witness ==
    /\ pc = "plusMonths"
    /\ normalDate = DateOf(2024, 1, 31)
    /\ nextDate = DateOf(2024, 4, 30)

(***************************************************************************)
(* C33: when the spreadsheet id, the service-account email, the private    *)
(* key or the project id is missing from the environment, syncAndNotify    *)
(* fails before any read, write or send: every run has ended in error, no  *)
(* sheet was read or written and no mail was sent.                         *)
(***************************************************************************)
C33_ConfigErrorBeforeIO ==
    env # REQUIRED_ENV =>
        /\ ops = <<>>
        /\ mail = <<>>
        /\ reminders = <<>> /\ statusLog = <<>>
        /\ returned = <<>>
        /\ pc \in {"idle", "error"}
        /\ runNo > 0 => pc = "error"

\* a run over a sheet with data rows has failed for a missing private key only
C33_Witness ==
    /\ env = REQUIRED_ENV \ {"GOOGLE_PRIVATE_KEY"}
    /\ runNo > 0
    /\ pc = "error"
    /\ Len(master) > 1

(***************************************************************************)
(* C34: in one run of sendReminders a record gets at most one send         *)
(* attempt, hence at most one tier: no two calls of sendEmail of a run are *)
(* for the same record, no record is examined twice, and the calls of a    *)
(* run are never more than its records.                                    *)
(***************************************************************************)
C34_OneAttemptPerRecord ==
    inLoop =>
        /\ \A i, j \in mailOfRun : i # j => mail[i].pos # mail[j].pos
        /\ \A i, j \in 1..Len(decisions) : i # j => decisions[i].pos # decisions[j].pos
        /\ Cardinality(mailOfRun) <= Len(processedCustomers)
        /\ sent + failed <= Len(processedCustomers)

\* a finished run made one call for each of its two records, and the call
\* that was rejected was not made again
C34_Witness ==
    /\ pc = "done"
    /\ Len(processedCustomers) = 2
    /\ Cardinality(mailOfRun) = 2
    /\ \E k \in mailOfRun : mail[k].result = "failed"

(***************************************************************************)
(* C35: the stamps mainSync writes back are true row by row.  When, after  *)
(* the write-back of a run, a source row holds today's date and a tier T   *)
(* that it did not hold when the run fetched it, the run made a successful *)
(* send of tier T today for that very row, to the address in that row;     *)
(* this also for rows that share name and registration number.             *)
(***************************************************************************)
\* row p holds the stamp (today, T) now and did not when the run fetched it
newlyStamped(p, T) ==
    /\ storedCell(p, COL_LAST_SENT) = toISODate(today)
    /\ storedCell(p, COL_TYPE) = T
    /\ \/ trim(fetchedCell(p, COL_LAST_SENT)) # toISODate(today)
       \/ trim(fetchedCell(p, COL_TYPE)) # T

\* the run made a successful send of tier T today for row p, to its address
sentFor(p, T) ==
    \E k \in mailOfRun :
        /\ mail[k].pos = p
        /\ mail[k].result = "ok"
        /\ mail[k].type = T
        /\ mail[k].todayStr = toISODate(today)
        /\ mail[k].to = trim(fetchedCell(p, COL_EMAIL))

C35_StampsAreTruthful ==
    persisted =>
        \A p \in 1..Len(masterRows) :
            \A T \in {ADVANCE_7DAY, DUE_TODAY, OVERDUE} :
                newlyStamped(p, T) => sentFor(p, T)

(***************************************************************************)
(* C36: the two ways of finding a field's column agree.  For the header a  *)
(* run of syncAndNotify has read and for every field, the column of the    *)
(* first synonym of the list that occurs in the header (pickIndex) is the  *)
(* first column of the header that is any synonym of the list (findIndex). *)
(***************************************************************************)
C36_ResolversAgree ==
    (ops # <<>> /\ ops[1].op = "read") =>
        \A f \in DOMAIN VARIANTS :
            pickIndex(headerRead, VARIANTS[f]) = findIndex(headerRead, VARIANTS[f])

(***************************************************************************)
(* C37: sendReminders of src/index.js calls sendEmail for a record only if *)
(* its Status is NOT SERVICED in some letter case, its email is not empty, *)
(* it is not flagged MISSING CONTACT and its Next Reminder Date is the     *)
(* current day or earlier; a record with any other Status is passed over.  *)
(* The current day is the day on the clock: it never goes back, so a date  *)
(* that was not after it when the call was made is not after it later.     *)
(***************************************************************************)
\* the Status of the record at p is NOT SERVICED, letter case ignored
notServiced(p) == toUpperCase(customerAt(p)[COL_STATUS]) = NOT_SERVICED

C37_StatusGatedSend ==
    inLoop =>
        /\ \A k \in mailOfRun :
              /\ notServiced(mail[k].pos)
              /\ customerAt(mail[k].pos)[COL_EMAIL] # EMPTY
              /\ mail[k].to = customerAt(mail[k].pos)[COL_EMAIL]
              /\ customerAt(mail[k].pos)[COL_MANUAL] # MISSING_CONTACT
              /\ fromISO(customerAt(mail[k].pos)[COL_NEXT]).isValid
              /\ diffDays(fromISO(customerAt(mail[k].pos)[COL_NEXT]), clock) <= 0
        /\ \A k \in 1..Len(decisions) :
              ~notServiced(decisions[k].pos) => decisions[k].outcome = "skip"

\* a finished run sent to a record whose Status is written in lower case and
\* passed over a record that is due today and marked SERVICED
C37_Witness ==
    /\ pc = "done"
    /\ \E k \in mailOfRun :
          /\ customerAt(mail[k].pos)[COL_STATUS] # NOT_SERVICED
          /\ notServiced(mail[k].pos)
    /\ \E k \in 1..Len(decisions) :
          /\ ~notServiced(decisions[k].pos)
          /\ customerAt(decisions[k].pos)[COL_EMAIL] # EMPTY
          /\ customerAt(decisions[k].pos)[COL_NEXT] = toISODate(today)
          /\ decisions[k].outcome = "skip"

(***************************************************************************)
(* C38: syncAndNotify handles a record as due exactly when its next        *)
(* reminder date less SEND_OFFSET_DAYS is today or earlier.  For each due  *)
(* record the run appends one status-log row, whose result is no-email     *)
(* exactly when the record has no email or no sender is set and otherwise  *)
(* sent or failed as the send ended; for a record that is not due or has   *)
(* no next reminder date it appends no row and makes no send.              *)
(***************************************************************************)
\* the record at p has a next reminder date that, less the offset, is today
\* or earlier
dueRecord(p) ==
    LET nextDisplay == processedCustomers[p].nextDisplay
        parsed == fromFormat(nextDisplay, FMT_DMY_HY)
    IN  /\ nextDisplay # EMPTY
        /\ parsed.isValid
        /\ diffDays(parsed, today) <= SEND_OFFSET_DAYS

\* the records the loop has been through, and the due ones among them
handledRecords == 1..(IF idx - 1 < Len(processedCustomers) THEN idx - 1
                      ELSE Len(processedCustomers))

dueHandled == {p \in handledRecords : dueRecord(p)}

\* the rows of the status log appended by the current run
rowsOfRun ==
    SubSeq(statusLog, Len(statusLog) - Cardinality(logAppends) + 1, Len(statusLog))

\* the sends the current run made for the record at p
sendsFor(p) == {k \in mailOfRun : mail[k].pos = p}

\* the result the row of the due record at p must show
expectedResult(p) ==
    IF processedCustomers[p].email = EMPTY \/ ~emailSender(env) THEN {"no-email"}
    ELSE {IF mail[k].result = "ok" THEN "sent" ELSE "failed" : k \in sendsFor(p)}

====
